---- MODULE Spec2Model ----
(***************************************************************************)
(* A model of ss-rs (shadowsocks in Rust): the AEAD-framed encrypted       *)
(* stream (src/net/stream.rs), the replay set (src/security/mod.rs), the   *)
(* context (src/context.rs) and the remote relay (src/tcp.rs).             *)
(*                                                                         *)
(* Wire sizes are scaled so that the state space stays finite: the payload *)
(* limit is 2^PayloadBits - 1 instead of 0x3FFF, the tag is TagSize bytes  *)
(* instead of 16, the salt SaltSize bytes instead of 16/32, the replay     *)
(* filter holds EXPECTED_NUM_ITEMS salts instead of 10^6 and its counter   *)
(* is CountBits wide instead of 32.  The AEAD is the ideal one: a          *)
(* ciphertext opens only under the key and nonce that sealed it.           *)
(***************************************************************************)
EXTENDS Integers, Sequences, FiniteSets, TLC

\* ------------------------------------------------------------------ bounds
PayloadBits == 2          \* MAXIMUM_PAYLOAD_SIZE has 14 bits in the source
TagSize == 1              \* Method::tag_size() is 16 in the source
SaltSize == 2             \* Method::salt_size() is 16 or 32 in the source
EXPECTED_NUM_ITEMS == 3   \* 1_000_000 in the source
CountBits == 3            \* Bloom.count is a u32 in the source
NumSalts == 1             \* salts the writer's random source may draw
NumReplaySalts == 8       \* distinct salts presented to the replay set
MaxEmptyWrites == 1       \* write calls made with an empty buffer
TransportCap == 3         \* bytes the transport holds in flight
MaxInject == 3            \* bytes an attacker inserts into a connection
NumTasks == 3             \* connection tasks racing on the replay set
DEFAULT_TIMEOUT == 3      \* 60 seconds in the source, here in time units
HandshakeSecs == 1        \* the 15 seconds of the handshake, in time units
HandshakeBytes == 2       \* reads the handshake needs to complete
MaxField == 2             \* longest method list, userid and name a client sends
MAXIMUM_IPV4_MASK == 2     \* 32 in the source: an IPv4 address has 32 bits
MAXIMUM_IPV6_MASK == 3     \* 128 in the source: an IPv6 address has 128 bits
MaxInserts == 2           \* networks inserted into an IpSet between clears
MaxLines == 3             \* lines of an ACL file
MaxCopied == 2            \* client bytes the local relay copies
TransferSecs == 2         \* the timeout handed to transfer_between, in time units
MaxSteps == 3             \* copy steps completed in one transfer_between
MaxReads == 2             \* reads counted on the remote relay's connection
NonceLen == 2             \* Method::iv_size() is 12 in the source
MaxIncrements == 3        \* increments of one nonce

\* ------------------------------------------------------- program constants
IvSize == 12              \* Method::iv_size()
ByteMod == 256            \* u8 wraps at 256

RECURSIVE Pow2(_)
Pow2(n) == IF n = 0 THEN 1 ELSE 2 * Pow2(n - 1)

MAXIMUM_PAYLOAD_SIZE == Pow2(PayloadBits) - 1
U32Mod == Pow2(CountBits)

Min(a, b) == IF a < b THEN a ELSE b

Conns == 1..2
Tasks == 1..NumTasks

\* ------------------------------------------------------------------ crypto
\* crypto::Nonce
NonceNew(len) == [i \in 1..len |-> 0]

RECURSIVE NonceIncFrom(_, _)
NonceIncFrom(v, i) ==
    IF i > Len(v) THEN v
    ELSE LET b == (v[i] + 1) % ByteMod
             v1 == [v EXCEPT ![i] = b]
         IN IF b # 0 THEN v1 ELSE NonceIncFrom(v1, i + 1)

\* (mutation) only byte 0 is incremented, the carry is lost
NonceIncrementNoCarry(v) == [v EXCEPT ![1] = (v[1] + 1) % ByteMod]

\* Nonce::increment
NonceIncrement(v) == NonceIncFrom(v, 1)

\* hkdf_sha1(key, salt): an injective function of (key, salt)
hkdf_sha1(key, salt) == <<key, salt>>

\* Cipher::encrypt: the sealed box is len(plaintext) + tag_size bytes; every
\* byte depends on the key, the nonce and the whole plaintext.
CtByte(key, nonce, pt, j) == [t |-> "ct", k |-> key, n |-> nonce, p |-> pt, j |-> j]
CipherEncrypt(key, nonce, pt) ==
    [j \in 1..(Len(pt) + TagSize) |-> CtByte(key, nonce, pt, j)]

\* Cipher::decrypt: opens exactly the boxes sealed under (key, nonce).
CipherDecrypt(key, nonce, ct) ==
    IF /\ Len(ct) >= TagSize
       /\ ct[1].t = "ct"
       /\ ct = CipherEncrypt(key, nonce, ct[1].p)
    THEN [ok |-> TRUE, data |-> ct[1].p]
    ELSE [ok |-> FALSE, data |-> <<>>]

RawByte(v) == [t |-> "raw", v |-> v]
SaltOf(v) == [i \in 1..SaltSize |-> RawByte(v)]
Salts == {SaltOf(v) : v \in 1..NumSalts}
Garbage == RawByte(0)

MasterKey == <<"master">>
NoCipher == <<>>

\* ------------------------------------------------------------- replay set
\* security::Bloom with both filters as exact sets.  `count += 1` wraps at
\* the counter's width, as it does in a build without overflow checks (with
\* them the overflowing call panics instead).
BloomNew == [filters |-> <<{}, {}>>, current |-> 0, count |-> 0]

\* (mutation) only the active filter is asked
BloomContainsActiveOnly(b, element) == element \in b.filters[b.current + 1]

\* self.filters.iter().any(|x| x.contains(&element))
BloomContains(b, element) == \E i \in 1..2 : element \in b.filters[i]

\* the insertion arm of Bloom::check_and_insert
BloomInsert(b, element) ==
    LET b1 == [b EXCEPT !.filters[b.current + 1] = @ \cup {element},
                        !.count = (@ + 1) % U32Mod]
    IN IF b1.count = EXPECTED_NUM_ITEMS
       THEN LET cur == (b.current + 1) % 2
            IN [b1 EXCEPT !.current = cur, !.filters[cur + 1] = {}]
       ELSE b1

\* Bloom::check_and_insert
BloomCheckAndInsert(b, element) ==
    IF BloomContains(b, element)
    THEN [ret |-> FALSE, b |-> b]
    ELSE [ret |-> TRUE, b |-> BloomInsert(b, element)]

\* ------------------------------------------------------------ OwnedReadBuf
\* net::buf::OwnedReadBuf: offset = Len(data)
OwnedReadBufNew == [data |-> <<>>, capacity |-> 0]
IsFull(rb) == Len(rb.data) = rb.capacity
Require(n) == [data |-> <<>>, capacity |-> n]

Take(s, n) == SubSeq(s, 1, n)
Drop(s, n) == SubSeq(s, n + 1, Len(s))

\* (mutation) a short read is not kept: the next poll starts the unit afresh
poll_read_exact_forgetful(rb, inp, end, n) ==
    LET rb1 == IF IsFull(rb) THEN Require(n) ELSE rb
        want == rb1.capacity - Len(rb1.data)
        k == Min(want, Len(inp))
        rb2 == [rb1 EXCEPT !.data = @ \o Take(inp, k)]
    IN [rb |-> IF IsFull(rb2) THEN rb2 ELSE Require(n), rest |-> Drop(inp, k),
        st |-> IF IsFull(rb2) THEN "Ready"
               ELSE IF end = "eof" THEN "UnexpectedEof" ELSE "Pending",
        data |-> rb2.data]

\* net::poll_read_exact.  `inp` is what the transport hands over during this
\* poll, `end` what it answers once `inp` is used up: "pending" or "eof".
poll_read_exact(rb, inp, end, n) ==
    LET rb1 == IF IsFull(rb) THEN Require(n) ELSE rb
        want == rb1.capacity - Len(rb1.data)
        k == Min(want, Len(inp))
        rb2 == [rb1 EXCEPT !.data = @ \o Take(inp, k)]
    IN [rb |-> rb2, rest |-> Drop(inp, k),
        st |-> IF IsFull(rb2) THEN "Ready"
               ELSE IF end = "eof" THEN "UnexpectedEof" ELSE "Pending",
        data |-> rb2.data]

\* --------------------------------------------------------------- TcpStream
\* net::stream::TcpStream::new
TcpStreamNew ==
    [cipher_key |-> MasterKey,
     enc_cipher |-> NoCipher, dec_cipher |-> NoCipher,
     enc_nonce |-> NonceNew(IvSize), dec_nonce |-> NonceNew(IvSize),
     incoming_salt |-> [some |-> FALSE, v |-> <<>>],
     read_state |-> [s |-> "ReadSalt", n |-> 0],
     write_state |-> "WriteSalt",
     in_payload |-> <<>>, out_payload |-> <<>>,
     read_buf |-> OwnedReadBufNew]

\* Ctx::check_replay -> ReplayProtection::check_and_insert (one lock region)
\* (mutation) the salt is tested but not remembered
check_replay_forgetful(c, salt) ==
    [ret |-> ~BloomContains(c.bloom, salt), ctx |-> c]

\* Ctx::check_replay
check_replay(c, salt) ==
    LET x == BloomCheckAndInsert(c.bloom, salt)
    IN [ret |-> x.ret, ctx |-> [c EXCEPT !.bloom = x.b]]

\* (mutation) the nonce advances after a failed decryption too
StreamDecryptAdvancing(s, ct) ==
    IF s.dec_cipher = NoCipher
    THEN [res |-> "Panic", data |-> <<>>, s |-> s]
    ELSE LET d == CipherDecrypt(s.dec_cipher, s.dec_nonce, ct)
         IN [res |-> IF d.ok THEN "Ok" ELSE "Decryption", data |-> d.data,
             s |-> [s EXCEPT !.dec_nonce = NonceIncrement(@)]]

\* TcpStream::decrypt
StreamDecrypt(s, ct) ==
    IF s.dec_cipher = NoCipher
    THEN [res |-> "Panic", data |-> <<>>, s |-> s]
    ELSE LET d == CipherDecrypt(s.dec_cipher, s.dec_nonce, ct)
         IN IF d.ok
            THEN [res |-> "Ok", data |-> d.data,
                  s |-> [s EXCEPT !.dec_nonce = NonceIncrement(@)]]
            ELSE [res |-> "Decryption", data |-> <<>>, s |-> s]

\* TcpStream::encrypt (the AEAD never refuses a plaintext of these sizes)
StreamEncrypt(s, pt) ==
    IF s.enc_cipher = NoCipher
    THEN [res |-> "Panic", data |-> <<>>, s |-> s]
    ELSE [res |-> "Ok", data |-> CipherEncrypt(s.enc_cipher, s.enc_nonce, pt),
          s |-> [s EXCEPT !.enc_nonce = NonceIncrement(@)]]

DecOp(s, kind, res) == [nonce |-> s.dec_nonce, kind |-> kind, ok |-> res = "Ok"]

\* (mutation) the salt counts as read as soon as any part of it has arrived
poll_read_salt_early(s, inp, end) ==
    IF s.dec_cipher # NoCipher
    THEN [s |-> s, rest |-> inp, st |-> "Ready"]
    ELSE LET Got(x) ==
                 IF x.st = "Pending" /\ x.rb.data # <<>>
                 THEN [s |-> [s EXCEPT !.read_buf = OwnedReadBufNew], rest |-> x.rest,
                       st |-> "Ready"]
                 ELSE IF x.st # "Ready"
                 THEN [s |-> [s EXCEPT !.read_buf = x.rb], rest |-> x.rest, st |-> x.st]
                 ELSE [s |-> [s EXCEPT !.read_buf = x.rb,
                                       !.incoming_salt = [some |-> TRUE, v |-> x.data],
                                       !.dec_cipher = hkdf_sha1(s.cipher_key, x.data)],
                       rest |-> x.rest, st |-> "Ready"]
         IN Got(poll_read_exact(s.read_buf, inp, end, SaltSize))

\* TcpStream::poll_read_salt
poll_read_salt(s, inp, end) ==
    IF s.dec_cipher # NoCipher
    THEN [s |-> s, rest |-> inp, st |-> "Ready"]
    ELSE LET Got(x) ==
                 IF x.st # "Ready"
                 THEN [s |-> [s EXCEPT !.read_buf = x.rb], rest |-> x.rest, st |-> x.st]
                 ELSE [s |-> [s EXCEPT !.read_buf = x.rb,
                                       !.incoming_salt = [some |-> TRUE, v |-> x.data],
                                       !.dec_cipher = hkdf_sha1(s.cipher_key, x.data)],
                       rest |-> x.rest, st |-> "Ready"]
         IN Got(poll_read_exact(s.read_buf, inp, end, SaltSize))

\* u16::from_be_bytes(len) & MAXIMUM_PAYLOAD_SIZE
LengthOf(d) == (d[1] * ByteMod + d[2]) % (MAXIMUM_PAYLOAD_SIZE + 1)
LengthUnmasked(d) == d[1] * ByteMod + d[2]

\* TcpStream::poll_read_length
poll_read_length(s, inp, end, ctx) ==
    LET Checked(s2, rest, len, op, c) ==
            [s |-> s2, rest |-> rest,
             st |-> IF c.ret THEN "Ready" ELSE "DuplicateSalt",
             len |-> len, ctx |-> c.ctx, ops |-> op,
             checked |-> <<[salt |-> s.incoming_salt.v, ret |-> c.ret]>>]
        Opened(s1, rest, d) ==
            LET op == <<DecOp(s1, "length", d.res)>>
                len == LengthOf(d.data)
                s2 == [d.s EXCEPT !.incoming_salt = [some |-> FALSE, v |-> <<>>]]
            IN IF d.res # "Ok"
               THEN [s |-> d.s, rest |-> rest, st |-> d.res, len |-> 0,
                     ctx |-> ctx, ops |-> op, checked |-> <<>>]
               ELSE IF s.incoming_salt.some
                    THEN Checked(s2, rest, len, op, check_replay(ctx, s.incoming_salt.v))
                    ELSE [s |-> s2, rest |-> rest, st |-> "Ready", len |-> len,
                          ctx |-> ctx, ops |-> op, checked |-> <<>>]
        Filled(s1, x) ==
            IF x.st # "Ready"
            THEN [s |-> s1, rest |-> x.rest, st |-> x.st, len |-> 0, ctx |-> ctx,
                  ops |-> <<>>, checked |-> <<>>]
            ELSE Opened(s1, x.rest, StreamDecrypt(s1, x.data))
        Got(x) == Filled([s EXCEPT !.read_buf = x.rb], x)
    IN Got(poll_read_exact(s.read_buf, inp, end, 2 + TagSize))

\* TcpStream::poll_read_payload
poll_read_payload(s, inp, end, payload_len) ==
    LET Opened(s1, rest, d) ==
            [s |-> d.s, rest |-> rest,
             st |-> IF d.res = "Ok" THEN "Ready" ELSE d.res,
             payload |-> d.data, ops |-> <<DecOp(s1, "payload", d.res)>>]
        Filled(s1, x) ==
            IF x.st # "Ready"
            THEN [s |-> s1, rest |-> x.rest, st |-> x.st, payload |-> <<>>, ops |-> <<>>]
            ELSE Opened(s1, x.rest, StreamDecrypt(s1, x.data))
        Got(x) == Filled([s EXCEPT !.read_buf = x.rb], x)
    IN Got(poll_read_exact(s.read_buf, inp, end, payload_len + TagSize))

\* (mutation) what does not fit the caller's buffer is not kept
ReadPayloadOutLossy(s, cap, filled) ==
    [s |-> [s EXCEPT !.read_state = [s |-> "ReadLength", n |-> 0]],
     res |-> "Ok", out |-> Take(s.in_payload, Min(cap, Len(s.in_payload)))]

\* The ReadPayloadOut arm of poll_read_decrypt; `cap` and `filled` are the
\* caller's ReadBuf.  ReadBuf::put_slice panics when the slice is longer than
\* the unfilled part.
ReadPayloadOut(s, cap, filled) ==
    LET payload_len == Len(s.in_payload)
    IN IF cap >= payload_len
       THEN IF payload_len > cap - filled
            THEN [s |-> s, res |-> "Panic", out |-> <<>>]
            ELSE [s |-> [s EXCEPT !.read_state = [s |-> "ReadLength", n |-> 0]],
                  res |-> "Ok", out |-> s.in_payload]
       ELSE IF cap > cap - filled
            THEN [s |-> s, res |-> "Panic", out |-> <<>>]
            ELSE [s |-> [s EXCEPT !.in_payload = Drop(s.in_payload, cap),
                                  !.read_state = [s |-> "ReadPayloadOut", n |-> 0]],
                  res |-> "Ok", out |-> Take(s.in_payload, cap)]

ReadRet(s, rest, res, out, ctx, ops, checked) ==
    [s |-> s, rest |-> rest, res |-> res, out |-> out, ctx |-> ctx, ops |-> ops,
     checked |-> checked]

\* TcpStream::poll_read_decrypt.  res is "Pending", "Ok", an error kind or
\* "Panic"; out is what was put into the caller's buffer; ops lists the AEAD
\* operations of this poll and checked the replay-set consultations.
RECURSIVE poll_read_decrypt(_, _, _, _, _, _, _, _)
poll_read_decrypt(s, inp, end, cap, filled, ctx, ops, checked) ==
    CASE s.read_state.s = "ReadSalt" ->
            LET Salt(x) ==
                    IF x.st = "Ready"
                    THEN poll_read_decrypt([x.s EXCEPT !.read_state = [s |-> "ReadLength", n |-> 0]],
                                           x.rest, end, cap, filled, ctx, ops, checked)
                    ELSE ReadRet(x.s, x.rest, x.st, <<>>, ctx, ops, checked)
            IN Salt(poll_read_salt(s, inp, end))
      [] s.read_state.s = "ReadLength" ->
            LET Length(x) ==
                    IF x.st = "Ready"
                    THEN poll_read_decrypt([x.s EXCEPT !.read_state = [s |-> "ReadPayload", n |-> x.len]],
                                           x.rest, end, cap, filled, x.ctx,
                                           ops \o x.ops, checked \o x.checked)
                    ELSE ReadRet(x.s, x.rest, x.st, <<>>, x.ctx, ops \o x.ops,
                                 checked \o x.checked)
            IN Length(poll_read_length(s, inp, end, ctx))
      [] s.read_state.s = "ReadPayload" ->
            LET Payload(x) ==
                    IF x.st = "Ready"
                    THEN poll_read_decrypt([x.s EXCEPT !.in_payload = x.payload,
                                                       !.read_state = [s |-> "ReadPayloadOut", n |-> 0]],
                                           x.rest, end, cap, filled, ctx, ops \o x.ops, checked)
                    ELSE ReadRet(x.s, x.rest, x.st, <<>>, ctx, ops \o x.ops, checked)
            IN Payload(poll_read_payload(s, inp, end, s.read_state.n))
      [] s.read_state.s = "ReadPayloadOut" ->
            LET Out(x) == ReadRet(x.s, inp, x.res, x.out, ctx, ops, checked)
            IN Out(ReadPayloadOut(s, cap, filled))

\* TcpStream::poll_read_decrypt_helper (= AsyncRead::poll_read)
poll_read_decrypt_helper(s, inp, end, cap, filled, ctx) ==
    LET Helper(x) ==
            [x EXCEPT !.res = IF @ = "UnexpectedEof" THEN "Ok" ELSE @] @@ [raw |-> x.res]
    IN Helper(poll_read_decrypt(s, inp, end, cap, filled, ctx, <<>>, <<>>))

\* ------------------------------------------------------------- write side
\* (length as u16).to_be_bytes()
LenBytes(length) == <<(length \div ByteMod) % ByteMod, length % ByteMod>>

EncOp(s, kind, pt) == [nonce |-> s.enc_nonce, kind |-> kind, pt |-> pt]

\* TcpStream::poll_write_salt; `salt` is what the random source yields
poll_write_salt(s, salt) ==
    IF s.enc_cipher = NoCipher
    THEN [s |-> [s EXCEPT !.enc_cipher = hkdf_sha1(s.cipher_key, salt),
                          !.out_payload = @ \o salt],
          ops |-> <<[nonce |-> <<>>, kind |-> "salt", pt |-> salt]>>]
    ELSE [s |-> s, ops |-> <<>>]

\* TcpStream::poll_write_length
poll_write_length(s, payload) ==
    LET length == Min(Len(payload), MAXIMUM_PAYLOAD_SIZE)
        e == StreamEncrypt(s, LenBytes(length))
    IN [s |-> [e.s EXCEPT !.out_payload = @ \o e.data], res |-> e.res,
        ops |-> <<EncOp(s, "length", LenBytes(length))>>]

\* (mutation) the whole buffer is sealed, not its first `length` bytes
poll_write_payload_whole(s, payload) ==
    LET e == StreamEncrypt(s, payload)
    IN [s |-> [e.s EXCEPT !.out_payload = @ \o e.data], res |-> e.res,
        ops |-> <<EncOp(s, "payload", payload)>>]

\* TcpStream::poll_write_payload
poll_write_payload(s, payload) ==
    LET length == Min(Len(payload), MAXIMUM_PAYLOAD_SIZE)
        e == StreamEncrypt(s, Take(payload, length))
    IN [s |-> [e.s EXCEPT !.out_payload = @ \o e.data], res |-> e.res,
        ops |-> <<EncOp(s, "payload", Take(payload, length))>>]

WriteRet(s, res, n, out, ops) == [s |-> s, res |-> res, n |-> n, out |-> out, ops |-> ops]

\* TcpStream::poll_write_encrypt (= AsyncWrite::poll_write).  `room` is the
\* number of bytes the transport accepts during this poll and `then` what it
\* answers after that: "pending", or "zero" for Ready(Ok(0)).  out is what it
\* accepted; ops lists what was queued for sending.  The `while` loop of the
\* WritePayloadOut arm goes round for as long as the transport answers
\* Ok(0) to a non-empty buffer: res is then "Spin", the poll does not return.
RECURSIVE poll_write_encrypt(_, _, _, _, _, _)
poll_write_encrypt(s, payload, salt, room, then, ops) ==
    CASE s.write_state = "WriteSalt" ->
            LET Salt(x) ==
                    poll_write_encrypt([x.s EXCEPT !.write_state = "WriteLength"],
                                       payload, salt, room, then, ops \o x.ops)
            IN Salt(poll_write_salt(s, salt))
      [] s.write_state = "WriteLength" ->
            LET Length(x) ==
                    IF x.res # "Ok" THEN WriteRet(x.s, x.res, 0, <<>>, ops)
                    ELSE poll_write_encrypt([x.s EXCEPT !.write_state = "WritePayload"],
                                            payload, salt, room, then, ops \o x.ops)
            IN Length(poll_write_length(s, payload))
      [] s.write_state = "WritePayload" ->
            LET Payload(x) ==
                    IF x.res # "Ok" THEN WriteRet(x.s, x.res, 0, <<>>, ops)
                    ELSE poll_write_encrypt([x.s EXCEPT !.write_state = "WritePayloadOut"],
                                            payload, salt, room, then, ops \o x.ops)
            IN Payload(poll_write_payload(s, payload))
      [] s.write_state = "WritePayloadOut" ->
            LET k == Min(room, Len(s.out_payload))
            IN IF k < Len(s.out_payload)
               THEN WriteRet([s EXCEPT !.out_payload = Drop(@, k)],
                             IF then = "zero" THEN "Spin" ELSE "Pending", 0,
                             Take(s.out_payload, k), ops)
               ELSE WriteRet([s EXCEPT !.out_payload = <<>>,
                                       !.write_state = "WriteLength"],
                             "Ok", Min(Len(payload), MAXIMUM_PAYLOAD_SIZE),
                             s.out_payload, ops)

\* ------------------------------------------------- TimeoutStream and relay
\* Time is counted in units of the scaled inactivity window.  A Sleep is kept
\* as the time left until its deadline: sleep_until(now + duration) and
\* reset(now + duration) both leave `duration` units, Tick takes one away, and
\* the Sleep is Ready once nothing is left.
Sides == {"a", "b"}
Dirs == {"ab", "ba"}
ReaderOf(d) == IF d = "ab" THEN "a" ELSE "b"
WriterOf(d) == IF d = "ab" THEN "b" ELSE "a"

\* What the inner stream answers to one poll: Ready(Ok(n > 0)), Ready(Ok(0)),
\* Ready(Err(e)) or Pending.
InnerPolls == {"Data", "Zero", "Error", "Pending"}

TimeoutStreamNew(duration) == [duration |-> duration, rem |-> duration, open |-> TRUE]
NoStream == [duration |-> 0, rem |-> 0, open |-> FALSE]

check_timeout_lenient(t) == "Ok"

check_timeout(t) == IF t.rem = 0 THEN "TimedOut" ELSE "Ok"

reset_timeout(t) == [t EXCEPT !.rem = t.duration]

TimeoutPollOnSuccess(t, inner) ==
    IF inner = "Data"
    THEN [t |-> reset_timeout(t), ret |-> inner]
    ELSE IF inner # "Pending"
    THEN [t |-> t, ret |-> inner]
    ELSE IF check_timeout(t) = "TimedOut"
    THEN [t |-> t, ret |-> "TimedOut"]
    ELSE [t |-> t, ret |-> "Pending"]

TimeoutPollRead(t, inner) ==
    IF inner # "Pending"
    THEN [t |-> reset_timeout(t), ret |-> inner]
    ELSE IF check_timeout(t) = "TimedOut"
    THEN [t |-> t, ret |-> "TimedOut"]
    ELSE [t |-> t, ret |-> "Pending"]

TimeoutPollWrite(t, inner) ==
    IF inner # "Pending"
    THEN [t |-> reset_timeout(t), ret |-> inner]
    ELSE IF check_timeout(t) = "TimedOut"
    THEN [t |-> t, ret |-> "TimedOut"]
    ELSE [t |-> t, ret |-> "Pending"]

make_timed_stream == TimeoutStreamNew(DEFAULT_TIMEOUT)

NoPoll == [op |-> "none", side |-> "a", inner |-> "Pending", ret |-> "Pending", before |-> 0, after |-> 0]
PollRecord(op, side, inner, t, r) ==
    [op |-> op, side |-> side, inner |-> inner, ret |-> r.ret, before |-> t.rem, after |-> r.t.rem]

\* The relay task of one accepted connection: the handshake on stream a, the
\* dial that creates stream b, then copy_bidirectional.  `age` is the time
\* since the accept while the handshake runs; `idle` is set once both peers
\* have gone silent for good.
XferNew ==
    [pc |-> "handshake", need |-> HandshakeBytes, age |-> 0, idle |-> FALSE,
     dir |-> [d \in Dirs |-> "read"], result |-> "none"]

\* ------------------------------------------------------------- IP networks
\* An address is its family and its bits, most significant first.
AddrBits(fam) == IF fam = "v4" THEN MAXIMUM_IPV4_MASK ELSE MAXIMUM_IPV6_MASK
Fams == {"v4", "v6"}
AddrsOf(fam) == {[fam |-> fam, bits |-> b] : b \in [1..AddrBits(fam) -> {0, 1}]}
Addrs == AddrsOf("v4") \cup AddrsOf("v6")

\* The text `addr/mask`, and Cidr::from_str of it.
\* The networks written in the files name the all-zero address, the all-one
\* address and the address of a zero followed by ones.
NetAddrs ==
    {a \in Addrs : \/ \A i \in 1..Len(a.bits) : a.bits[i] = 0
                   \/ \A i \in 1..Len(a.bits) : a.bits[i] = 1
                   \/ \A i \in 1..Len(a.bits) : a.bits[i] = (IF i = 1 THEN 0 ELSE 1)}
CidrTexts == {[addr |-> a, mask |-> m] : a \in NetAddrs, m \in 0..(MAXIMUM_IPV6_MASK + 1)}
CidrFromStr(text) ==
    IF text.mask > AddrBits(text.addr.fam)
    THEN [ok |-> FALSE, addr |-> text.addr, mask |-> 0]
    ELSE [ok |-> TRUE, addr |-> text.addr, mask |-> text.mask]

\* A Trie is kept as the paths of the nodes below its root and the paths of
\* the nodes marked is_complete; the root is the empty path.
TrieNew == [nodes |-> {}, complete |-> {}]

insert_bits(t, bits) ==
    [nodes |-> t.nodes \cup {Take(bits, k) : k \in 1..Len(bits)},
     complete |-> t.complete \cup {bits}]

\* Trie::contains after k bits of data have been followed.
RECURSIVE TrieWalk(_, _, _)
TrieWalk(t, data, k) ==
    IF k = Len(data) THEN TRUE
    ELSE IF Take(data, k + 1) \notin t.nodes THEN FALSE
    ELSE IF Take(data, k + 1) \in t.complete THEN TRUE
    ELSE TrieWalk(t, data, k + 1)

TrieContains(t, data) == TrieWalk(t, data, 0)

TrieClearFlagOnly(t) == [t EXCEPT !.complete = @ \ {<<>>}]

TrieClear(t) == TrieNew

IpSetNew == [ipv4 |-> TrieNew, ipv6 |-> TrieNew]

IpSetInsert(s, cidr) ==
    IF cidr.addr.fam = "v4"
    THEN [s EXCEPT !.ipv4 = insert_bits(@, Take(cidr.addr.bits, cidr.mask))]
    ELSE [s EXCEPT !.ipv6 = insert_bits(@, Take(cidr.addr.bits, cidr.mask))]

IpSetContains(s, addr) ==
    IF addr.fam = "v4" THEN TrieContains(s.ipv4, addr.bits)
    ELSE TrieContains(s.ipv6, addr.bits)

IpSetClear(s) == [ipv4 |-> TrieClear(s.ipv4), ipv6 |-> TrieClear(s.ipv6)]

\* The set under test, the networks inserted since the last clear, and
\* whether it was ever cleared.
IpsNew == [set |-> IpSetNew, log |-> {}, cleared |-> FALSE, rejected |-> 0]

\* ------------------------------------------------------------------- ACL
\* Texts handed to the rules: a host name as its labels (each the bytes
\* between two dots), or an address in its display form, each with the port
\* that follows it (0: no port).
HostText(labels, port) == [kind |-> "name", labels |-> labels, addr |-> <<>>, port |-> port]
IpText(ip) == [kind |-> "ip", labels |-> <<>>, addr |-> ip, port |-> 0]
SocketText(ip, port) == [kind |-> "ip", labels |-> <<>>, addr |-> ip, port |-> port]

IsSuffix(s, t) == Len(s) <= Len(t) /\ SubSeq(t, Len(t) - Len(s) + 1, Len(t)) = s

\* Regex::is_match for the patterns of the ACL files: "suffix" is
\* (^|\.)name$, "ip" is the anchored display form of an address, "label" is
\* an unanchored label, and "raw" is a line that was compiled as it stood: it
\* demands a slash, a bracket or a blank, which no host or address text holds.
is_match(rule, text) ==
    CASE rule.kind = "suffix" ->
           text.kind = "name" /\ text.port = 0 /\ IsSuffix(rule.labels, text.labels)
      [] rule.kind = "ip" ->
           text.kind = "ip" /\ text.port = 0 /\ text.addr = rule.addr
      [] rule.kind = "label" ->
           text.kind = "name" /\ \E i \in 1..Len(text.labels) : <<text.labels[i]>> = rule.labels
      [] OTHER -> FALSE

RuleSetContains(rules, text) == \E r \in rules : is_match(r, text)

AclNew ==
    [bypass_list |-> IpSetNew, proxy_list |-> IpSetNew, outbound_block_list |-> IpSetNew,
     bypass_rules |-> {}, proxy_rules |-> {}, outbound_block_rules |-> {},
     mode |-> "WhiteList"]

\* Acl::is_bypass; host is a text or NoHost.
NoHost == [kind |-> "none", labels |-> <<>>, addr |-> <<>>, port |-> 0]

AclIsBypassListsFirst(a, ip, host) ==
    IF IpSetContains(a.bypass_list, ip) THEN TRUE
    ELSE IF IpSetContains(a.proxy_list, ip) THEN FALSE
    ELSE IF host # NoHost /\ host # IpText(ip) /\ RuleSetContains(a.bypass_rules, host) THEN TRUE
    ELSE IF host # NoHost /\ host # IpText(ip) /\ RuleSetContains(a.proxy_rules, host) THEN FALSE
    ELSE a.mode = "BlackList"

AclIsBypass(a, ip, host) ==
    IF host # NoHost /\ host # IpText(ip) /\ RuleSetContains(a.bypass_rules, host) THEN TRUE
    ELSE IF host # NoHost /\ host # IpText(ip) /\ RuleSetContains(a.proxy_rules, host) THEN FALSE
    ELSE IF IpSetContains(a.bypass_list, ip) THEN TRUE
    ELSE IF IpSetContains(a.proxy_list, ip) THEN FALSE
    ELSE a.mode = "BlackList"

AclIsBlockOutboundHostOnly(a, ip, host) ==
    IF IpSetContains(a.outbound_block_list, ip) THEN TRUE
    ELSE IF host # NoHost /\ host # IpText(ip) /\ RuleSetContains(a.outbound_block_rules, host) THEN TRUE
    ELSE a.mode = "BlackList"

AclIsBlockOutbound(a, ip, host) ==
    IF IpSetContains(a.outbound_block_list, ip) THEN TRUE
    ELSE IF RuleSetContains(a.outbound_block_rules, IpText(ip)) THEN TRUE
    ELSE IF host # NoHost /\ host # IpText(ip) /\ RuleSetContains(a.outbound_block_rules, host) THEN TRUE
    ELSE a.mode = "BlackList"

\* Ctx::is_bypass and Ctx::is_block_outbound over Option<Acl>.
CtxIsBypass(c, ip, host) == IF c.some THEN AclIsBypass(c.acl, ip, host) ELSE FALSE
CtxIsBlockOutbound(c, ip, host) == IF c.some THEN AclIsBlockOutbound(c.acl, ip, host) ELSE FALSE

\* A line of an ACL file: its body, whether blanks follow the body, and
\* whether a # comment ends the line.
Headers ==
    {"[proxy_all]", "[accept_all]", "[bypass_all]", "[reject_all]", "[bypass_list]",
     "[black_list]", "[proxy_list]", "[white_list]", "[outbound_block_list]"}
NoBody == [kind |-> "none"]
HeaderBody(h) == [kind |-> "header", name |-> h]
CidrBody(t) == [kind |-> "cidr", text |-> t]
RegexBody(r) == [kind |-> "regex", rule |-> r]
BadBody == [kind |-> "bad"]
AclLineOf(body, gap, comment) == [body |-> body, gap |-> gap, comment |-> comment]

\* line.trim() and &line[..line.find('#')]: the blanks between the body and
\* the # stay on the record.
StripLine(line) ==
    [body |-> line.body, trail |-> line.body # NoBody /\ line.gap /\ line.comment]

StripLineTrimmed(line) == [body |-> line.body, trail |-> FALSE]

\* The parser: the ACL built so far and the section that receives entries.
ParserNew == [acl |-> AclNew, cur |-> "bypass", n |-> 0]

SectionInsertIp(a, cur, cidr) ==
    CASE cur = "bypass" -> [a EXCEPT !.bypass_list = IpSetInsert(@, cidr)]
      [] cur = "proxy" -> [a EXCEPT !.proxy_list = IpSetInsert(@, cidr)]
      [] OTHER -> [a EXCEPT !.outbound_block_list = IpSetInsert(@, cidr)]

SectionInsertRule(a, cur, rule) ==
    CASE cur = "bypass" -> [a EXCEPT !.bypass_rules = @ \cup {rule}]
      [] cur = "proxy" -> [a EXCEPT !.proxy_rules = @ \cup {rule}]
      [] OTHER -> [a EXCEPT !.outbound_block_rules = @ \cup {rule}]

\* record.parse::<Cidr>() and record.parse::<Regex>() of a stripped line.
RecordCidr(rec) ==
    IF rec.body.kind = "cidr" /\ ~rec.trail THEN CidrFromStr(rec.body.text)
    ELSE [ok |-> FALSE, addr |-> <<>>, mask |-> 0]

RecordRegex(rec) ==
    IF rec.body.kind = "bad" THEN [ok |-> FALSE, rule |-> NoBody]
    ELSE IF rec.body.kind = "regex" /\ ~rec.trail THEN [ok |-> TRUE, rule |-> rec.body.rule]
    ELSE [ok |-> TRUE, rule |-> [kind |-> "raw", body |-> rec.body, trail |-> rec.trail]]

AclInsert(p, rec) ==
    IF RecordCidr(rec).ok
    THEN [p EXCEPT !.acl = SectionInsertIp(@, p.cur, RecordCidr(rec))]
    ELSE IF RecordRegex(rec).ok
    THEN [p EXCEPT !.acl = SectionInsertRule(@, p.cur, RecordRegex(rec).rule)]
    ELSE p

\* One turn of the loop of Acl::from_str over a stripped line.
AclLine(p, rec) ==
    IF rec.body = NoBody THEN p
    ELSE IF rec.body.kind = "header" /\ ~rec.trail
    THEN CASE rec.body.name \in {"[proxy_all]", "[accept_all]"} -> [p EXCEPT !.acl.mode = "WhiteList"]
           [] rec.body.name \in {"[bypass_all]", "[reject_all]"} -> [p EXCEPT !.acl.mode = "BlackList"]
           [] rec.body.name \in {"[bypass_list]", "[black_list]"} -> [p EXCEPT !.cur = "bypass"]
           [] rec.body.name \in {"[proxy_list]", "[white_list]"} -> [p EXCEPT !.cur = "proxy"]
           [] OTHER -> [p EXCEPT !.cur = "outbound_block"]
    ELSE AclInsert(p, rec)

\* The file being read: the parser, the parser fed the same lines with their
\* comments taken off beforehand, and the Ctx's Option<Acl> once set_acl ran.
NoAcl == [p |-> ParserNew, q |-> ParserNew, some |-> FALSE, acl |-> AclNew, commented |-> {}]
NoQuery == [op |-> "none", ip |-> <<>>, host |-> NoHost, result |-> FALSE, n |-> 0]

\* ------------------------------------------------ SOCKS handshake state
NoAddr == [form |-> "none", host |-> <<>>, port |-> 0]
\* plan and sent are what the client means to send and how much of it went
\* out, sock what waits in the socket, rbuf what the BufReader of
\* Socks4Addr::construct holds, taken what was read off the socket, dropped
\* what a BufReader held when it was dropped.
HsNew ==
    [entry |-> "none", proto |-> "none", pc |-> "idle", want |-> 0, got |-> <<>>,
     inp |-> <<>>, out |-> <<>>, res |-> "none", v |-> 0, addr |-> NoAddr, eof |-> FALSE,
     plan |-> <<>>, sent |-> 0, reqlen |-> 0, sock |-> <<>>, rbuf |-> <<>>,
     taken |-> <<>>, dropped |-> <<>>]
NoCodec ==
    [op |-> "none", addr |-> NoAddr, rec |-> <<>>,
     back |-> [res |-> "none", addr |-> NoAddr, used |-> 0], raw |-> <<>>]

\* transfer_between at its first select!: nothing copied, no direction done,
\* no write half shut down, the sleep just started.
\* Of the copy_once in flight in each direction: size is what its read
\* returned and held what of it write_all has not written yet.  got, put and
\* lost count the bytes read, written and dropped with a future.
CpNew ==
    [n |-> [d \in Dirs |-> 0], done |-> [d \in Dirs |-> FALSE],
     shut |-> [s \in Sides |-> 0], slept |-> 0, steps |-> 0,
     result |-> "running", ret |-> [d \in Dirs |-> 0],
     size |-> [d \in Dirs |-> 0], held |-> [d \in Dirs |-> 0],
     got |-> [d \in Dirs |-> 0], put |-> [d \in Dirs |-> 0],
     lost |-> [d \in Dirs |-> 0]]

\* no Nonce yet
CounterNew == [value |-> <<>>, prev |-> <<>>, op |-> "none", n |-> 0]

\* The local relay before its handshake.
NoIp == [fam |-> "none", bits |-> <<>>]
LocNew ==
    [pc |-> "accepted", target |-> NoAddr, resolved |-> FALSE, ip |-> NoIp, arm |-> "none",
     direct |-> 0, remote |-> 0, enc |-> FALSE, tun |-> <<>>, out |-> <<>>, copied |-> 0]

\* handle_ss_remote as the listener hands it a connection.
RemNew ==
    [pc |-> "listening", peer |-> NoIp, target |-> NoAddr, ip |-> NoIp,
     reads |-> 0, dials |-> 0, log |-> <<>>]

\* ------------------------------------------------------------------ state
VARIABLES
    src,        \* the plaintext the writing application has to send
    wr,         \* the writer's TcpStream
    wcall,      \* the write call in progress (AsyncWriteExt::write / write_all)
    consumed,   \* history: the bytes write calls reported as consumed
    emits,      \* history: nonce and kind of everything the writer queued
    wlast,      \* history: the last completed write call
    nEmpty,     \* number of write calls made with an empty buffer
    wire,       \* bytes the writer's transport has accepted
    closed,     \* the writer's end of the transport is closed
    rd,         \* the readers' TcpStreams, one per connection
    delivered,  \* history: plaintext returned by reads, per connection
    rlast,      \* history: the last poll_read of each connection
    decLog,     \* history: the AEAD operations of each reader
    ctx,        \* the shared Ctx and its replay set
    net,        \* bytes in each connection's socket, not yet read
    eof,        \* the peer of each connection has closed it
    fed,        \* how much of the captured wire each connection was sent
    injected,   \* bytes the attacker inserted so far
    relay,      \* handle_ss_remote, one task per connection
    tasks,      \* tasks calling Ctx::check_replay
    mutex,      \* holder of ReplayProtection.bloom's lock, 0 when free
    timers,     \* the TimeoutStreams of one relayed connection
    xfer,       \* its relay task: handshake, then copy_bidirectional
    tlast,      \* history: the last poll of a TimeoutStream
    hs,         \* one client stream and the SOCKS handshake reading it
    codec,      \* the last run of the address codec
    ips,        \* an IpSet and what was inserted into it
    acl,        \* the ACL of the Ctx, when one is set
    aclq,       \* history: the last ACL query and its answer
    loc,        \* the local relay's connection
    cp,         \* a run of transfer_between
    rem,        \* the remote relay's connection
    counter,    \* a Nonce and the last operation on it
    hist        \* history of the replay set

streamVars == <<src, wr, wcall, consumed, emits, wlast, nEmpty, wire, closed,
                rd, delivered, rlast, decLog>>
advVars == <<net, eof, fed, injected, relay>>
bloomVars == <<tasks, mutex, hist>>
timeVars == <<timers, xfer, tlast>>
socksVars == <<hs, codec>>
routeVars == <<ips, acl, aclq, loc, cp, rem, counter>>
frontVars == <<timeVars, socksVars, routeVars>>
coreVars == <<streamVars, ctx, advVars, bloomVars, routeVars>>
baseVars == <<streamVars, ctx, advVars, bloomVars, timeVars, socksVars>>
vars == <<streamVars, ctx, advVars, bloomVars, frontVars>>

MaxTotal == 2 * MAXIMUM_PAYLOAD_SIZE + 2
CountingBytes(n) == [i \in 1..n |-> i % ByteMod]
ReadCaps == {1, MAXIMUM_PAYLOAD_SIZE}

NoCall == [active |-> FALSE, buf |-> <<>>, mode |-> "write", n0 |-> 0, recs |-> 0,
           ops |-> <<>>, polls |-> 0, zero |-> FALSE, err |-> "none"]
NoLast == [valid |-> FALSE, buf |-> <<>>, ret |-> 0, ops |-> <<>>, mode |-> "write",
           n0 |-> 0, recs |-> 0, done |-> FALSE]
WriteLens == {0, 1, MAXIMUM_PAYLOAD_SIZE, MAXIMUM_PAYLOAD_SIZE + 1}
WriteAllLens == {MAXIMUM_PAYLOAD_SIZE + 1, MaxTotal}
NoRead == [res |-> "None", raw |-> "None", n |-> 0, partial |-> FALSE,
           replay |-> "none", failed |-> FALSE, after |-> FALSE]
NoRelay == [pc |-> "idle", stage |-> "atyp", want |-> 0, got |-> <<>>, dialed |-> FALSE]
\* Ctx::new
CtxNew == [bloom |-> BloomNew]
NoHist == [valid |-> FALSE, salt |-> <<>>, ret |-> FALSE, before |-> BloomNew,
           seen |-> {}, first |-> FALSE, sinceSwap |-> 0]
NoTask == [pc |-> "idle", salt |-> <<>>, ret |-> FALSE]

InitButCounter ==
    /\ wr = TcpStreamNew
    /\ wcall = NoCall
    /\ consumed = <<>>
    /\ emits = <<>>
    /\ wlast = NoLast
    /\ nEmpty = 0
    /\ wire = <<>>
    /\ closed = FALSE
    /\ rd = [c \in Conns |-> TcpStreamNew]
    /\ delivered = [c \in Conns |-> <<>>]
    /\ rlast = [c \in Conns |-> NoRead]
    /\ decLog = [c \in Conns |-> <<>>]
    /\ net = [c \in Conns |-> <<>>]
    /\ eof = [c \in Conns |-> FALSE]
    /\ fed = [c \in Conns |-> 0]
    /\ injected = 0
    /\ relay = [c \in Conns |-> NoRelay]
    /\ tasks = [t \in Tasks |-> NoTask]
    /\ mutex = 0
    /\ hist = NoHist
    /\ timers = [a |-> make_timed_stream, b |-> NoStream]
    /\ xfer = XferNew
    /\ tlast = NoPoll
    /\ hs = HsNew
    /\ codec = NoCodec
    /\ ips = IpsNew
    /\ acl = NoAcl
    /\ aclq = NoQuery
    /\ loc = LocNew
    /\ cp = CpNew
    /\ rem = RemNew

InitCommon ==
    /\ InitButCounter
    /\ counter = CounterNew

Init ==
    /\ InitCommon
    /\ src = CountingBytes(MaxTotal)
    /\ ctx = CtxNew

Remaining == Len(src) - Len(consumed)

\* AsyncWriteExt::write(buf): one poll_write call, polled until it is Ready
StartWrite(len) ==
    /\ ~wcall.active /\ ~closed
    /\ len = 0 => nEmpty < MaxEmptyWrites
    /\ wcall' = [NoCall EXCEPT !.active = TRUE,
                               !.buf = SubSeq(src, Len(consumed) + 1, Len(consumed) + len)]
    /\ nEmpty' = IF len = 0 THEN nEmpty + 1 ELSE nEmpty
    /\ UNCHANGED <<src, wr, consumed, emits, wlast, wire, closed, rd, delivered,
                   rlast, decLog, ctx, advVars, bloomVars, frontVars>>

\* AsyncWriteExt::write_all(buf): poll_write on what is left until none is
StartWriteAll(len) ==
    /\ ~wcall.active /\ ~closed
    /\ wcall' = [NoCall EXCEPT !.active = TRUE, !.mode = "write_all", !.n0 = len,
                               !.buf = SubSeq(src, Len(consumed) + 1, Len(consumed) + len)]
    /\ UNCHANGED <<src, wr, consumed, emits, wlast, nEmpty, wire, closed, rd,
                   delivered, rlast, decLog, ctx, advVars, bloomVars, frontVars>>

OpsMeta(ops) == [i \in 1..Len(ops) |-> [nonce |-> ops[i].nonce, kind |-> ops[i].kind]]
CountKind(ops, kind) == Cardinality({i \in 1..Len(ops) : ops[i].kind = kind})

\* One poll of the write call in progress; the transport accepts `room` bytes
\* and then answers `then`.
WritePoll(salt, room, then) ==
    LET Done(x) ==
            LET ops == wcall.ops \o x.ops
                recs == wcall.recs + CountKind(x.ops, "payload")
                rest == Drop(wcall.buf, x.n)
                more == wcall.mode = "write_all" /\ rest # <<>>
            IN /\ wr' = x.s
               /\ wire' = wire \o x.out
               /\ emits' = emits \o OpsMeta(x.ops)
               /\ IF x.res = "Ok"
                  THEN /\ consumed' = consumed \o Take(wcall.buf, x.n)
                       /\ wlast' = [valid |-> TRUE, buf |-> wcall.buf, ret |-> x.n,
                                    ops |-> ops, mode |-> wcall.mode, n0 |-> wcall.n0,
                                    recs |-> recs, done |-> ~more]
                       /\ wcall' = IF more
                                   THEN [wcall EXCEPT !.buf = rest, !.recs = recs,
                                                      !.ops = <<>>, !.polls = 0]
                                   ELSE NoCall
                  ELSE /\ wcall' = [wcall EXCEPT !.ops = ops, !.recs = recs, !.polls = 1,
                                                  !.zero = x.res = "Spin"]
                       /\ UNCHANGED <<consumed, wlast>>
    IN Done(poll_write_encrypt(wr, wcall.buf, salt, room, then, <<>>))

PollWrite ==
    /\ wcall.active /\ ~wcall.zero /\ ~closed
    /\ \E salt \in Salts, room \in 0..(TransportCap - Len(wire)) :
          WritePoll(salt, room, "pending")
    /\ UNCHANGED <<src, nEmpty, closed, rd, delivered, rlast, decLog, ctx, advVars,
                   bloomVars, frontVars>>

\* The writer's end goes away: shutdown, or the connection is cut.
Close ==
    /\ ~closed
    /\ closed' = TRUE
    /\ UNCHANGED <<src, wr, wcall, consumed, emits, wlast, nEmpty, wire, rd,
                   delivered, rlast, decLog, ctx, advVars, bloomVars, frontVars>>

\* One poll_read of connection c on the input `inp`, into a ReadBuf of
\* capacity cap of which `filled` bytes are taken.
\* What a poll of connection c's reader that ended as x leaves behind.
ReadPoll(c, x) ==
    /\ rd' = [rd EXCEPT ![c] = x.s]
    /\ ctx' = x.ctx
    /\ delivered' = [delivered EXCEPT ![c] = @ \o x.out]
    /\ decLog' = [decLog EXCEPT ![c] = @ \o x.ops]
    /\ rlast' = [rlast EXCEPT ![c] =
           [res |-> x.res, raw |-> x.raw, n |-> Len(x.out),
            partial |-> Len(x.s.read_buf.data) > 0 /\ ~IsFull(x.s.read_buf),
            replay |-> IF x.checked = <<>> THEN @.replay
                       ELSE IF x.checked[1].ret THEN "fresh" ELSE "duplicate",
            failed |-> @.failed \/ x.res \in {"Decryption", "DuplicateSalt"},
            after |-> @.failed]]

\* A read on connection 1 over the honest transport: the transport hands over
\* any part of what it holds (it may split and delay at any byte).
PollRead ==
    /\ \E m \in 0..Len(wire), cap \in ReadCaps :
          LET Done(x) ==
                  /\ ReadPoll(1, x)
                  /\ wire' = x.rest \o Drop(wire, m)
          IN Done(poll_read_decrypt_helper(rd[1], Take(wire, m),
                        IF closed /\ m = Len(wire) THEN "eof" ELSE "pending",
                        cap, 0, ctx))
    /\ UNCHANGED <<src, wr, wcall, consumed, emits, wlast, nEmpty, closed, advVars,
                   bloomVars, frontVars>>

Next ==
    \/ \E len \in WriteLens : len <= Remaining /\ StartWrite(len)
    \/ \E len \in WriteAllLens : len <= Remaining /\ StartWriteAll(len)
    \/ PollWrite
    \/ Close
    \/ PollRead

Spec == Init /\ [][Next]_vars

\* The same poll over a transport that, once it has taken `room` bytes,
\* answers Ready(Ok(0)) instead of Pending.
PollWriteZero ==
    /\ wcall.active /\ ~wcall.zero /\ ~closed
    /\ \E salt \in Salts, room \in 0..(TransportCap - Len(wire)) :
          WritePoll(salt, room, "zero")
    /\ UNCHANGED <<src, nEmpty, closed, rd, delivered, rlast, decLog, ctx, advVars,
                   bloomVars, frontVars>>

NextStall ==
    \/ Next
    \/ PollWriteZero

SpecStall == Init /\ [][NextStall]_vars

\* ------------------------------------------ the remote relay under attack
\* socks5::constants
ATYP_IPV4 == 1
ATYP_DOMAIN_NAME == 3
ATYP_IPV6 == 4
\* `let mut buf = [0; 2048]` of tcp::read_to_end
DrainBufSize == 2048

\* Socks5Addr::get_raw_parts of 10.0.0.1:80, the destination ss-local sends
TargetAddrBytes == <<ATYP_IPV4, 10, 0, 0, 1, 0, 80>>

Cont(b) == b >= 128 /\ b <= 191

\* String::from_utf8 accepts exactly the well-formed UTF-8 sequences
RECURSIVE IsUtf8(_)
IsUtf8(b) ==
    IF b = <<>> THEN TRUE
    ELSE LET h == b[1] n == Len(b)
         IN IF h < 128 THEN IsUtf8(Drop(b, 1))
            ELSE IF h >= 194 /\ h <= 223
                 THEN n >= 2 /\ Cont(b[2]) /\ IsUtf8(Drop(b, 2))
            ELSE IF h >= 224 /\ h <= 239
                 THEN /\ n >= 3 /\ Cont(b[2]) /\ Cont(b[3])
                      /\ (h = 224 => b[2] >= 160)
                      /\ (h = 237 => b[2] <= 159)
                      /\ IsUtf8(Drop(b, 3))
            ELSE IF h >= 240 /\ h <= 244
                 THEN /\ n >= 4 /\ Cont(b[2]) /\ Cont(b[3]) /\ Cont(b[4])
                      /\ (h = 240 => b[2] >= 144)
                      /\ (h = 244 => b[2] <= 143)
                      /\ IsUtf8(Drop(b, 4))
            ELSE FALSE

\* Socks5Addr::construct after one read_exact has completed with `got`:
\* the next read_exact, the parsed address, or an error of kind Other.
ConstructStep(stage, got) ==
    CASE stage = "atyp" ->
            IF got[1] = ATYP_IPV4 THEN [next |-> "ipv4", want |-> 6, err |-> "none"]
            ELSE IF got[1] = ATYP_DOMAIN_NAME THEN [next |-> "len", want |-> 1, err |-> "none"]
            ELSE IF got[1] = ATYP_IPV6 THEN [next |-> "ipv6", want |-> 18, err |-> "none"]
            ELSE [next |-> "error", want |-> 0, err |-> "InvalidAddressType"]
      [] stage = "len" -> [next |-> "domain", want |-> got[1] + 2, err |-> "none"]
      [] stage = "domain" ->
            IF IsUtf8(Take(got, Len(got) - 2)) THEN [next |-> "done", want |-> 0, err |-> "none"]
            ELSE [next |-> "error", want |-> 0, err |-> "DomainName"]
      [] OTHER -> [next |-> "done", want |-> 0, err |-> "none"]

Polled(c, cap, filled) ==
    poll_read_decrypt_helper(rd[c], net[c], IF eof[c] THEN "eof" ELSE "pending",
                             cap, filled, ctx)

SocketRead(c, x) ==
    /\ ReadPoll(c, x)
    /\ net' = [net EXCEPT ![c] = x.rest]

InitAdv ==
    /\ InitCommon
    /\ src = TargetAddrBytes
    /\ ctx = CtxNew

\* ss-local, proxy path: target_stream.write_all(&target_addr_bytes)
WriteTargetAddr ==
    /\ consumed = <<>>
    /\ StartWriteAll(Len(src))

\* ss-local's transport takes what it is given; the attacker records it.
AdvPollWrite ==
    /\ wcall.active
    /\ \E salt \in Salts : WritePoll(salt, Len(wr.out_payload) + SaltSize + MaxTotal + 2 * TagSize + 2,
                                 "pending")
    /\ UNCHANGED <<src, nEmpty, closed, rd, delivered, rlast, decLog, ctx, advVars,
                   bloomVars, frontVars>>

\* The relay task of connection c still holds its socket.
Open(c) == ~eof[c] /\ relay[c].pc \in {"construct", "drain"}

\* The attacker sends connection c the next k bytes of what it recorded.
Replay(c, k) ==
    /\ Open(c)
    /\ fed[c] + k <= Len(wire)
    /\ Len(net[c]) + k <= TransportCap
    /\ net' = [net EXCEPT ![c] = @ \o SubSeq(wire, fed[c] + 1, fed[c] + k)]
    /\ fed' = [fed EXCEPT ![c] = @ + k]
    /\ UNCHANGED <<streamVars, ctx, eof, injected, relay, bloomVars, frontVars>>

\* The attacker inserts a byte of its own.
Inject(c) ==
    /\ Open(c)
    /\ injected < MaxInject
    /\ Len(net[c]) < TransportCap
    /\ net' = [net EXCEPT ![c] = @ \o <<Garbage>>]
    /\ injected' = injected + 1
    /\ UNCHANGED <<streamVars, ctx, eof, fed, relay, bloomVars, frontVars>>

\* The attacker closes connection c.
CloseConn(c) ==
    /\ Open(c)
    /\ eof' = [eof EXCEPT ![c] = TRUE]
    /\ UNCHANGED <<streamVars, ctx, net, fed, injected, relay, bloomVars, frontVars>>

\* handle_ss_remote, step 1: ctx.is_bypass(peer.ip(), None) rejects the peer
RelayAccept(c, bypass) ==
    /\ relay[c].pc = "idle"
    /\ relay' = [relay EXCEPT ![c] =
          IF bypass THEN [@ EXCEPT !.pc = "rejected"]
          ELSE [@ EXCEPT !.pc = "construct", !.stage = "atyp", !.want = 1, !.got = <<>>]]
    /\ UNCHANGED <<streamVars, ctx, net, eof, fed, injected, bloomVars, frontVars>>

\* handle_ss_remote, step 2: one poll of the read_exact that
\* Socks5Addr::construct awaits; an error of kind Other leads to read_to_end.
RelayConstruct(c) ==
    /\ relay[c].pc = "construct"
    /\ LET Parsed(got, step) ==
               IF step.next = "error" THEN [relay[c] EXCEPT !.pc = "drain", !.got = <<>>]
               ELSE IF step.next = "done" THEN [relay[c] EXCEPT !.pc = "resolve", !.got = <<>>]
               ELSE [relay[c] EXCEPT !.stage = step.next, !.want = step.want, !.got = <<>>]
           Read(x, got) ==
               /\ SocketRead(c, x)
               /\ relay' = [relay EXCEPT ![c] =
                     CASE x.res = "Pending" -> @
                       [] x.res = "Panic" -> [@ EXCEPT !.pc = "panicked"]
                       [] x.res \in {"Decryption", "DuplicateSalt"} -> [@ EXCEPT !.pc = "drain"]
                       [] x.res = "Ok" /\ x.out = <<>> -> [@ EXCEPT !.pc = "closed"]
                       [] x.res = "Ok" /\ x.out # <<>> /\ Len(got) < relay[c].want ->
                             [@ EXCEPT !.got = got]
                       [] OTHER -> Parsed(got, ConstructStep(relay[c].stage, got))]
           Result(x) == Read(x, relay[c].got \o x.out)
       IN Result(Polled(c, relay[c].want, Len(relay[c].got)))
    /\ UNCHANGED <<src, wr, wcall, consumed, emits, wlast, nEmpty, wire, closed, eof,
                   fed, injected, bloomVars, frontVars>>

\* tcp::read_to_end: read and discard until end-of-stream or an error
RelayDrain(c) ==
    /\ relay[c].pc = "drain"
    /\ LET Read(x) ==
               /\ SocketRead(c, x)
               /\ relay' = [relay EXCEPT ![c] =
                     CASE x.res = "Pending" -> @
                       [] x.res = "Panic" -> [@ EXCEPT !.pc = "panicked"]
                       [] x.res = "Ok" /\ x.out # <<>> -> @
                       [] OTHER -> [@ EXCEPT !.pc = "closed"]]
       IN Read(Polled(c, DrainBufSize, 0))
    /\ UNCHANGED <<src, wr, wcall, consumed, emits, wlast, nEmpty, wire, closed, eof,
                   fed, injected, bloomVars, frontVars>>

\* handle_ss_remote, steps 3 and 4: lookup_host, then ctx.is_block_outbound
RelayResolve(c, resolved, blocked) ==
    /\ relay[c].pc = "resolve"
    /\ relay' = [relay EXCEPT ![c].pc = IF resolved /\ ~blocked THEN "connect" ELSE "closed"]
    /\ UNCHANGED <<streamVars, ctx, net, eof, fed, injected, bloomVars, frontVars>>

\* handle_ss_remote, step 5: TokioTcpStream::connect(target_socket_addr)
RelayConnect(c, connected) ==
    /\ relay[c].pc = "connect"
    /\ relay' = [relay EXCEPT ![c] = [@ EXCEPT !.pc = IF connected THEN "transfer" ELSE "closed",
                                              !.dialed = TRUE]]
    /\ UNCHANGED <<streamVars, ctx, net, eof, fed, injected, bloomVars, frontVars>>

RelaySteps(c) ==
    \/ \E k \in 1..TransportCap : Replay(c, k)
    \/ CloseConn(c)
    \/ \E bypass \in BOOLEAN : RelayAccept(c, bypass)
    \/ RelayConstruct(c)
    \/ RelayDrain(c)
    \/ \E resolved \in BOOLEAN, blocked \in BOOLEAN : RelayResolve(c, resolved, blocked)
    \/ \E connected \in BOOLEAN : RelayConnect(c, connected)

\* Two connections to ss-remote fed from one recorded client session.
NextReplay ==
    \/ WriteTargetAddr
    \/ AdvPollWrite
    \/ \E c \in Conns : RelaySteps(c)

SpecReplay == InitAdv /\ [][NextReplay]_vars

\* One connection to ss-remote whose bytes the attacker also tampers with.
NextTamper ==
    \/ WriteTargetAddr
    \/ AdvPollWrite
    \/ Inject(1)
    \/ RelaySteps(1)

SpecTamper == InitAdv /\ [][NextTamper]_vars

\* ------------------------------------------------- the replay set by itself
ReplaySalts == {SaltOf(v) : v \in 1..NumReplaySalts}

InitBloom ==
    /\ InitCommon
    /\ src = <<>>
    /\ ctx = CtxNew

\* One connection after another presents its salt: Ctx::check_replay(salt).
Present(salt) ==
    LET x == check_replay(ctx, salt)
    IN /\ ctx' = x.ctx
       /\ hist' = [valid |-> TRUE, salt |-> salt, ret |-> x.ret, before |-> ctx.bloom,
                   seen |-> hist.seen \cup {salt}, first |-> salt \notin hist.seen,
                   sinceSwap |-> IF ~x.ret THEN hist.sinceSwap
                                 ELSE IF x.ctx.bloom.current # ctx.bloom.current THEN 0
                                 ELSE hist.sinceSwap + 1]
       /\ UNCHANGED <<streamVars, advVars, frontVars, tasks, mutex>>

NextBloom == \E salt \in ReplaySalts : Present(salt)

SpecBloom == InitBloom /\ [][NextBloom]_vars

\* ------------------------------------- tasks racing on Ctx::check_replay
TaskSalts == {SaltOf(1), SaltOf(2)}

\* (mutation) the lock is taken whoever holds it
CanLockUnguarded(t) == TRUE

\* spin::Mutex::lock succeeds only while nobody holds the lock
CanLock(t) == mutex = 0

\* A connection task reaches `self.ctx.check_replay(&salt)`.
CallCheckReplay(t, salt) ==
    /\ tasks[t].pc = "idle"
    /\ tasks' = [tasks EXCEPT ![t] = [pc |-> "lock", salt |-> salt, ret |-> FALSE]]
    /\ UNCHANGED <<streamVars, ctx, advVars, frontVars, mutex, hist>>

\* self.bloom.lock()
Lock(t) ==
    /\ tasks[t].pc = "lock"
    /\ CanLock(t)
    /\ mutex' = t
    /\ tasks' = [tasks EXCEPT ![t].pc = "check"]
    /\ UNCHANGED <<streamVars, ctx, advVars, frontVars, hist>>

\* Bloom::check_and_insert, the membership test
Check(t) ==
    /\ tasks[t].pc = "check"
    /\ tasks' = [tasks EXCEPT ![t].pc =
                    IF BloomContains(ctx.bloom, tasks[t].salt) THEN "unlock" ELSE "insert"]
    /\ UNCHANGED <<streamVars, ctx, advVars, frontVars, mutex, hist>>

\* Bloom::check_and_insert, the insertion
Insert(t) ==
    /\ tasks[t].pc = "insert"
    /\ ctx' = [ctx EXCEPT !.bloom = BloomInsert(@, tasks[t].salt)]
    /\ tasks' = [tasks EXCEPT ![t].pc = "unlock", ![t].ret = TRUE]
    /\ UNCHANGED <<streamVars, advVars, frontVars, mutex, hist>>

\* the MutexGuard is dropped and the call returns
Unlock(t) ==
    /\ tasks[t].pc = "unlock"
    /\ mutex' = IF mutex = t THEN 0 ELSE mutex
    /\ tasks' = [tasks EXCEPT ![t].pc = "done"]
    /\ UNCHANGED <<streamVars, ctx, advVars, frontVars, hist>>

NextTasks ==
    \E t \in Tasks :
        \/ \E salt \in TaskSalts : CallCheckReplay(t, salt)
        \/ Lock(t)
        \/ Check(t)
        \/ Insert(t)
        \/ Unlock(t)

SpecTasks == InitBloom /\ [][NextTasks]_vars

\* ------------------------------------------------------- the relay task
Finish(x, result) == [x EXCEPT !.pc = "ended", !.result = result]
Dropped(ts) == [s \in Sides |-> [ts[s] EXCEPT !.open = FALSE]]

\* One unit of time passes.
Tick ==
    /\ xfer.pc # "ended"
    /\ timers' = [s \in Sides |->
                    IF timers[s].open /\ timers[s].rem > 0
                    THEN [timers[s] EXCEPT !.rem = @ - 1] ELSE timers[s]]
    /\ xfer' = IF xfer.pc = "handshake" /\ xfer.age <= HandshakeSecs
               THEN [xfer EXCEPT !.age = @ + 1] ELSE xfer
    /\ UNCHANGED <<coreVars, socksVars, tlast>>

\* One poll of a read of the handshake, through the timeout stream only.
HandshakeRead(inner) ==
    /\ xfer.pc = "handshake"
    /\ LET Go(r) ==
             /\ tlast' = PollRecord("read", "a", inner, timers.a, r)
             /\ IF r.ret = "Data"
                THEN /\ timers' = [timers EXCEPT !.a = r.t]
                     /\ xfer' = IF xfer.need = 1
                                THEN [xfer EXCEPT !.need = 0, !.pc = "dialing"]
                                ELSE [xfer EXCEPT !.need = @ - 1]
                ELSE IF r.ret = "Pending"
                THEN /\ timers' = [timers EXCEPT !.a = r.t]
                     /\ xfer' = xfer
                ELSE /\ timers' = Dropped([timers EXCEPT !.a = r.t])
                     /\ xfer' = Finish(xfer, IF r.ret = "Zero" THEN "UnexpectedEof" ELSE r.ret)
       IN Go(TimeoutPollRead(timers.a, inner))
    /\ UNCHANGED <<coreVars, socksVars>>

\* The dial: a second timed stream on success, return on failure.
Dial(connected) ==
    /\ xfer.pc = "dialing"
    /\ IF connected
       THEN /\ timers' = [timers EXCEPT !.b = make_timed_stream]
            /\ xfer' = [xfer EXCEPT !.pc = "copying"]
       ELSE /\ timers' = Dropped(timers)
            /\ xfer' = Finish(xfer, "ConnectFailed")
    /\ UNCHANGED <<coreVars, socksVars, tlast>>

\* Both peers stop sending and stop reading: from here on every poll of an
\* inner stream is Pending.
GoIdle ==
    /\ xfer.pc = "copying"
    /\ ~xfer.idle
    /\ xfer' = [xfer EXCEPT !.idle = TRUE]
    /\ UNCHANGED <<coreVars, socksVars, timers, tlast>>

\* One poll of one direction of copy_bidirectional: a read of its reader
\* while its buffer is empty, a write to its writer while it is not.  End of
\* stream shuts the writer down and finishes the direction; any error ends
\* the copy, and `transfer` returns, dropping both streams.
CopyPoll(d, inner) ==
    /\ xfer.pc = "copying"
    /\ xfer.dir[d] # "done"
    /\ xfer.idle => inner = "Pending"
    /\ LET side == IF xfer.dir[d] = "read" THEN ReaderOf(d) ELSE WriterOf(d)
           Go(r) ==
             /\ tlast' = PollRecord(xfer.dir[d], side, inner, timers[side], r)
             /\ IF r.ret = "Pending"
                THEN /\ timers' = [timers EXCEPT ![side] = r.t]
                     /\ xfer' = xfer
                ELSE IF r.ret = "Data"
                THEN /\ timers' = [timers EXCEPT ![side] = r.t]
                     /\ xfer' = [xfer EXCEPT !.dir[d] = IF @ = "read" THEN "write" ELSE "read"]
                ELSE IF r.ret = "Zero" /\ xfer.dir[d] = "read"
                THEN IF \A e \in Dirs \ {d} : xfer.dir[e] = "done"
                     THEN /\ timers' = Dropped([timers EXCEPT ![side] = r.t])
                          /\ xfer' = Finish([xfer EXCEPT !.dir[d] = "done"], "Ok")
                     ELSE /\ timers' = [timers EXCEPT ![side] = r.t]
                          /\ xfer' = [xfer EXCEPT !.dir[d] = "done"]
                ELSE /\ timers' = Dropped([timers EXCEPT ![side] = r.t])
                     /\ xfer' = Finish(xfer, IF r.ret = "Zero" THEN "WriteZero" ELSE r.ret)
       IN IF xfer.dir[d] = "read"
          THEN Go(TimeoutPollRead(timers[side], inner))
          ELSE Go(TimeoutPollWrite(timers[side], inner))
    /\ UNCHANGED <<coreVars, socksVars>>

CopyStep == \E d \in Dirs, inner \in InnerPolls : CopyPoll(d, inner)

NextTimeout ==
    \/ Tick
    \/ \E inner \in InnerPolls : HandshakeRead(inner)
    \/ \E connected \in BOOLEAN : Dial(connected)
    \/ GoIdle
    \/ CopyStep

SpecTimeout == Init /\ [][NextTimeout]_vars

\* The timer wakes the task that polled it, and a woken task is polled.
SpecTimeoutFair == SpecTimeout /\ WF_vars(Tick) /\ WF_vars(CopyStep)

\* ---------------------------------------------------------- SOCKS handshake
\* socks5::constants and socks4::constants
SOCKS5_VERSION == 5
SOCKS4_VERSION == 4
METHOD_NO_AUTHENTICATION == 0
COMMAND_CONNECT == 1
SOCKS4_GRANTED == 90

Socks5MethodReply == <<SOCKS5_VERSION, METHOD_NO_AUTHENTICATION>>
Socks5Reply == <<SOCKS5_VERSION, 0, 0, ATYP_IPV4, 0, 0, 0, 0, 0, 0>>
Socks4Reply == <<0, SOCKS4_GRANTED, 0, 0, 0, 0, 0, 0>>

Range(s) == {s[i] : i \in 1..Len(s)}
\* Vec::pop: the last element goes, if there is one
Pop(s) == IF s = <<>> THEN s ELSE Take(s, Len(s) - 1)

\* u16::from_be_bytes and u16::to_be_bytes
U16(hi, lo) == hi * ByteMod + lo
BeBytes(p) == <<p \div ByteMod, p % ByteMod>>
\* Ipv6Addr::new(a, .., h) of the eight big-endian pairs, and Ipv6Addr::octets
Segments(b) == [i \in 1..8 |-> U16(b[2 * i - 1], b[2 * i])]
Octets(g) == [i \in 1..16 |-> IF i % 2 = 1 THEN g[(i + 1) \div 2] \div ByteMod
                                           ELSE g[i \div 2] % ByteMod]

\* The Socks5Addr that construct returns once the read_exact of `stage` has
\* filled `got`.
AddrOf(stage, got) ==
    CASE stage = "ipv4" ->
            [form |-> "Ipv4", host |-> Take(got, 4), port |-> U16(got[5], got[6])]
      [] stage = "ipv6" ->
            [form |-> "Ipv6", host |-> Segments(got), port |-> U16(got[17], got[18])]
      [] stage = "domain" ->
            [form |-> "DomainName", host |-> Take(got, Len(got) - 2),
             port |-> U16(got[Len(got) - 1], got[Len(got)])]
      [] OTHER -> NoAddr

get_raw_parts(a) ==
    CASE a.form = "Ipv4" -> <<ATYP_IPV4>> \o a.host \o BeBytes(a.port)
      [] a.form = "Ipv6" -> <<ATYP_IPV6>> \o Octets(a.host) \o BeBytes(a.port)
      [] OTHER -> <<ATYP_DOMAIN_NAME, Len(a.host) % ByteMod>> \o a.host \o BeBytes(a.port)

\* socks::socks5::Socks5Addr::construct, the copy under socks/: the same
\* reads, a formatted message in place of Error::DomainName.
SocksConstructStep(stage, got) ==
    IF stage = "domain" /\ ~IsUtf8(Take(got, Len(got) - 2))
    THEN [next |-> "error", want |-> 0, err |-> "NotADomainNameMessage"]
    ELSE ConstructStep(stage, got)

\* What a handshake does once a read has completed: the next read, a reply
\* written to the client, or its result.
HsGo(next, want) == [next |-> next, want |-> want, write |-> <<>>, res |-> "none", v |-> 0]
HsFail(res, v) == [next |-> "failed", want |-> 0, write |-> <<>>, res |-> res, v |-> v]
HsDone(write) == [next |-> "done", want |-> 0, write |-> write, res |-> "Ok", v |-> 0]
HsConstruct(step, reply) ==
    IF step.next = "error" THEN HsFail(step.err, 0)
    ELSE IF step.next = "done" THEN HsDone(reply)
    ELSE HsGo(step.next, step.want)

Socks5MethodsAny(methods) ==
    IF methods # <<>>
    THEN [HsGo("request", 3) EXCEPT !.write = Socks5MethodReply]
    ELSE HsFail("Method", 0)

Socks5Methods(methods) ==
    IF METHOD_NO_AUTHENTICATION \in Range(methods)
    THEN [HsGo("request", 3) EXCEPT !.write = Socks5MethodReply]
    ELSE HsFail("Method", 0)

Socks5HandshakeEagerReply(pc, got) ==
    CASE pc = "greeting" ->
            IF got[1] # SOCKS5_VERSION THEN HsFail("Version", got[1])
            ELSE IF got[2] = 0 THEN Socks5Methods(<<>>)
            ELSE HsGo("methods", got[2])
      [] pc = "methods" -> Socks5Methods(got)
      [] pc = "request" ->
            IF got[1] # SOCKS5_VERSION THEN HsFail("VersionInconsistent", got[1])
            ELSE IF got[2] # COMMAND_CONNECT THEN HsFail("Command", got[2])
            ELSE [HsGo("atyp", 1) EXCEPT !.write = Socks5Reply]
      [] OTHER -> HsConstruct(ConstructStep(pc, got), <<>>)

\* socks5::handshake
Socks5Handshake(pc, got) ==
    CASE pc = "greeting" ->
            IF got[1] # SOCKS5_VERSION THEN HsFail("Version", got[1])
            ELSE IF got[2] = 0 THEN Socks5Methods(<<>>)
            ELSE HsGo("methods", got[2])
      [] pc = "methods" -> Socks5Methods(got)
      [] pc = "request" ->
            IF got[1] # SOCKS5_VERSION THEN HsFail("VersionInconsistent", got[1])
            ELSE IF got[2] # COMMAND_CONNECT THEN HsFail("Command", got[2])
            ELSE HsGo("atyp", 1)
      [] OTHER -> HsConstruct(ConstructStep(pc, got), Socks5Reply)

SentinelLoose(buf) == buf[3] = 0 /\ buf[4] = 0 /\ buf[5] = 0

\* `buf[2..5].iter().all(|&x| x == 0) && buf[5] != 0` of Socks4Addr::construct
Sentinel(buf) == buf[3] = 0 /\ buf[4] = 0 /\ buf[5] = 0 /\ buf[6] # 0

\* socks4::handshake and Socks4Addr::construct
Socks4Handshake(pc, got) ==
    CASE pc = "cd" ->
            IF got[1] # COMMAND_CONNECT THEN HsFail("Command", got[1])
            ELSE HsGo("head4", 6)
      [] pc = "head4" ->
            IF Sentinel(got) THEN HsGo("userid4a", 0) ELSE HsGo("userid4", 0)
      [] pc = "userid4" -> HsDone(Socks4Reply)
      [] pc = "userid4a" -> HsGo("domain4a", 0)
      [] OTHER ->
            IF IsUtf8(Pop(got)) THEN HsDone(Socks4Reply) ELSE HsFail("DomainName", 0)

Socks4Stages == {"cd", "head4", "userid4", "userid4a", "domain4a"}
\* the reads made with read_until(0x00, ..)
UntilStages == {"userid4", "userid4a", "domain4a"}

SocksDispatchLax(version) ==
    IF version = SOCKS4_VERSION THEN HsGo("cd", 1)
    ELSE HsGo("nmethods", 1)

\* the `match version` of socks::handshake
SocksDispatch(version) ==
    IF version = SOCKS4_VERSION THEN HsGo("cd", 1)
    ELSE IF version = SOCKS5_VERSION THEN HsGo("nmethods", 1)
    ELSE HsFail("Version", version)

\* The SOCKS5 handshake that socks::handshake enters with the version byte
\* already read: the method count, then the stages of socks5::handshake, the
\* address read by the construct under socks/.
SharedSocks5(pc, got) ==
    CASE pc = "nmethods" ->
            IF got[1] = 0 THEN Socks5Methods(<<>>) ELSE HsGo("methods", got[1])
      [] pc \in {"methods", "request"} -> Socks5Handshake(pc, got)
      [] OTHER -> HsConstruct(SocksConstructStep(pc, got), Socks5Reply)

\* socks::handshake
SocksHandshake(pc, got) ==
    IF pc = "version" THEN SocksDispatch(got[1])
    ELSE IF pc \in Socks4Stages THEN Socks4Handshake(pc, got)
    ELSE SharedSocks5(pc, got)

\* The four ways a client stream is read: socks5::handshake as ss-local calls
\* it, socks::handshake, and the two copies of Socks5Addr::construct alone.
Entries == {"socks5", "socks", "construct5", "construct"}
FirstRead(entry) ==
    CASE entry = "socks5" -> HsGo("greeting", 2)
      [] entry = "socks" -> HsGo("version", 1)
      [] OTHER -> HsGo("atyp", 1)

HsStep(entry, pc, got) ==
    CASE entry = "socks5" -> Socks5Handshake(pc, got)
      [] entry = "socks" -> SocksHandshake(pc, got)
      [] entry = "construct5" -> HsConstruct(ConstructStep(pc, got), <<>>)
      [] OTHER -> HsConstruct(SocksConstructStep(pc, got), <<>>)

\* The address a handshake holds after the read of stage pc: Socks4Addr keeps
\* the port of the fixed part until the domain name has been read.
HsAddr(pc, got, old) ==
    CASE pc = "head4" ->
            IF Sentinel(got)
            THEN [form |-> "DomainName", host |-> <<>>, port |-> U16(got[1], got[2])]
            ELSE [form |-> "Ipv4", host |-> SubSeq(got, 3, 6), port |-> U16(got[1], got[2])]
      [] pc = "domain4a" -> [old EXCEPT !.host = Pop(got)]
      [] pc \in {"ipv4", "ipv6", "domain"} -> AddrOf(pc, got)
      [] OTHER -> old

ReadComplete(pc, want, got) ==
    IF pc \in UntilStages THEN got # <<>> /\ got[Len(got)] = 0
    ELSE Len(got) = want

Advance(h, got, step) ==
    [h EXCEPT !.pc = step.next, !.want = step.want, !.got = <<>>,
              !.out = @ \o step.write, !.res = step.res, !.v = step.v,
              !.addr = IF step.next = "failed" THEN NoAddr ELSE HsAddr(h.pc, got, h.addr),
              !.proto = IF h.pc # "version" THEN @
                        ELSE IF step.next = "cd" THEN "socks4"
                        ELSE IF step.next = "nmethods" THEN "socks5"
                        ELSE "none"]

\* The bytes a client may send next, by what the handshake is reading.
Offers(pc, got) ==
    CASE pc = "version" -> {4, 5, 6}
      [] pc = "greeting" -> IF got = <<>> THEN {4, 5} ELSE 0..MaxField
      [] pc \in {"nmethods", "len"} -> 0..MaxField
      [] pc = "methods" -> {0, 1, 2}
      [] pc = "request" ->
            IF got = <<>> THEN {4, 5} ELSE IF Len(got) = 1 THEN {1, 2} ELSE {0}
      [] pc = "atyp" -> {1, 3, 4, 5}
      [] pc = "cd" -> {1, 2}
      [] pc = "ipv4" -> {0, 80}
      [] pc = "ipv6" -> IF Len(got) \in {0, 17} THEN {0, 1} ELSE {0}
      [] pc = "domain" -> {97, 128, 195}
      [] pc = "head4" -> IF Len(got) < 2 THEN {0, 80} ELSE {0, 1}
      [] pc \in {"userid4", "userid4a"} -> IF Len(got) < MaxField THEN {0, 97} ELSE {0}
      [] OTHER -> IF Len(got) < MaxField THEN {0, 97, 128} ELSE {0}

Reading == hs.pc \notin {"idle", "done", "failed"} /\ ~hs.eof

\* A connection is accepted and handed to one of the entry points.
HsAccept(entry) ==
    /\ hs.pc = "idle"
    /\ hs' = [hs EXCEPT !.entry = entry, !.pc = FirstRead(entry).next,
                        !.want = FirstRead(entry).want]
    /\ UNCHANGED <<coreVars, timeVars, codec>>

\* The client sends one byte and the pending read takes it.
ClientSend(b) ==
    /\ Reading
    /\ b \in Offers(hs.pc, hs.got)
    /\ LET Go(h, got) ==
             IF ReadComplete(h.pc, h.want, got)
             THEN hs' = Advance(h, got, HsStep(h.entry, h.pc, got))
             ELSE hs' = [h EXCEPT !.got = got]
       IN Go([hs EXCEPT !.inp = Append(@, b)], Append(hs.got, b))
    /\ UNCHANGED <<coreVars, timeVars, codec>>

\* The client closes its sending side.  read_exact fails with UnexpectedEof;
\* read_until returns what it has, and every later read_until returns nothing.
ClientEof ==
    /\ Reading
    /\ LET Go(h) ==
             IF h.pc \notin UntilStages
             THEN hs' = Advance(h, h.got, HsFail("UnexpectedEof", 0))
             ELSE IF h.pc = "userid4a"
             THEN hs' = Advance(Advance(h, h.got, HsStep(h.entry, h.pc, h.got)),
                                <<>>, HsStep(h.entry, "domain4a", <<>>))
             ELSE hs' = Advance(h, h.got, HsStep(h.entry, h.pc, h.got))
       IN Go([hs EXCEPT !.eof = TRUE])
    /\ UNCHANGED <<coreVars, timeVars, codec>>

NextSocks ==
    \/ \E entry \in Entries : HsAccept(entry)
    \/ \E b \in 0..(ByteMod - 1) : ClientSend(b)
    \/ ClientEof

SpecSocks == Init /\ [][NextSocks]_vars

\* ------------------------------------------------------- the address codec
\* Socks5Addr::construct run on a reader that holds exactly b: its result
\* and the number of bytes it took.
RECURSIVE ConstructRun(_, _, _, _)
ConstructRun(stage, want, b, used) ==
    IF Len(b) - used < want
    THEN [res |-> "UnexpectedEof", addr |-> NoAddr, used |-> Len(b)]
    ELSE LET Go(got, step) ==
               IF step.next = "error"
               THEN [res |-> step.err, addr |-> NoAddr, used |-> used + want]
               ELSE IF step.next = "done"
               THEN [res |-> "Ok", addr |-> AddrOf(stage, got), used |-> used + want]
               ELSE ConstructRun(step.next, step.want, b, used + want)
             At(got) == Go(got, ConstructStep(stage, got))
         IN At(SubSeq(b, used + 1, used + want))

construct(b) == ConstructRun("atyp", 1, b, 0)

Filled(n, x) == [i \in 1..n |-> x]
CodecPorts == {0, 80, ByteMod, ByteMod * ByteMod - 1}
CodecNames ==
    {Filled(n, 97) : n \in {0, 1, MaxField, ByteMod, ByteMod + 1}}
        \cup {<<195, 168>>}
CodecAddrs ==
    {[form |-> "Ipv4", host |-> h, port |-> p] :
        h \in [1..4 -> {0, ByteMod - 1}], p \in CodecPorts}
    \cup {[form |-> "Ipv6", host |-> Filled(8, s), port |-> p] :
            s \in {0, 1, ByteMod, ByteMod * ByteMod - 1}, p \in CodecPorts}
    \cup {[form |-> "DomainName", host |-> n, port |-> p] :
            n \in CodecNames, p \in {0, 80}}
CodecRecords ==
    {<<ATYP_IPV4>> \o b : b \in [1..6 -> {0, ByteMod - 1}]}
    \cup {<<ATYP_IPV6>> \o Filled(18, x) : x \in {0, 1, ByteMod - 1}}
    \cup {<<ATYP_DOMAIN_NAME, n>> \o b : n \in 0..MaxField, b \in [1..(MaxField + 2) -> {97, 128}]}
    \cup {<<t>> \o Filled(6, 0) : t \in {0, 2, 5}}

\* get_raw_parts of an address, and construct on the bytes it produced.
Serialize(a) ==
    /\ LET Go(raw) ==
             codec' = [op |-> "serialize", addr |-> a, rec |-> raw,
                       back |-> construct(raw), raw |-> raw]
       IN Go(get_raw_parts(a))
    /\ UNCHANGED <<coreVars, timeVars, hs>>

\* construct on a wire record, and get_raw_parts of the address it returned.
Parse(r) ==
    /\ LET Go(back) ==
             codec' = [op |-> "parse", addr |-> back.addr, rec |-> r, back |-> back,
                       raw |-> IF back.res = "Ok" THEN get_raw_parts(back.addr) ELSE <<>>]
       IN Go(construct(r))
    /\ UNCHANGED <<coreVars, timeVars, hs>>

NextCodec ==
    \/ \E a \in CodecAddrs : Serialize(a)
    \/ \E r \in CodecRecords : Parse(r)

SpecCodec == Init /\ [][NextCodec]_vars

\* ------------------------------------------------------------ IpSet in use
\* A network text is parsed and, when the parser accepts it, inserted.
IpInsert(text) ==
    /\ Cardinality(ips.log) < MaxInserts
    /\ LET Go(cidr) ==
             IF cidr.ok
             THEN ips' = [ips EXCEPT !.set = IpSetInsert(@, cidr),
                                     !.log = @ \cup {[addr |-> cidr.addr, mask |-> cidr.mask]}]
             ELSE ips.rejected = 0 /\ ips' = [ips EXCEPT !.rejected = 1]
       IN Go(CidrFromStr(text))
    /\ UNCHANGED <<baseVars, counter, acl, aclq, loc, cp, rem>>

IpClear ==
    /\ ips.log # {}
    /\ ips' = [ips EXCEPT !.set = IpSetClear(@), !.log = {}, !.cleared = TRUE]
    /\ UNCHANGED <<baseVars, counter, acl, aclq, loc, cp, rem>>

NextIpSet ==
    \/ \E text \in CidrTexts : IpInsert(text)
    \/ IpClear

SpecIpSet == Init /\ [][NextIpSet]_vars

\* -------------------------------------------------------------- ACL in use
AclBodies ==
    {HeaderBody("[bypass_all]"), HeaderBody("[proxy_list]"), HeaderBody("[outbound_block_list]"),
     CidrBody([addr |-> [fam |-> "v4", bits |-> [i \in 1..MAXIMUM_IPV4_MASK |-> 1]], mask |-> 1]),
     RegexBody([kind |-> "suffix", labels |-> <<(<<98>>), (<<99>>)>>]),
     RegexBody([kind |-> "ip", addr |-> [fam |-> "v4", bits |-> [i \in 1..MAXIMUM_IPV4_MASK |-> 0]]]),
     BadBody}

AclLines ==
    {AclLineOf(b, FALSE, FALSE) : b \in AclBodies}
    \cup {AclLineOf(b, TRUE, TRUE) : b \in {NoBody} \cup {c \in AclBodies : c.kind \in {"cidr", "header"}}}
    \cup {AclLineOf(b, FALSE, TRUE) : b \in {c \in AclBodies : c.kind = "cidr"}}

QueryIps ==
    {[fam |-> "v4", bits |-> [i \in 1..MAXIMUM_IPV4_MASK |-> 1]],
     [fam |-> "v4", bits |-> [i \in 1..MAXIMUM_IPV4_MASK |-> 0]]}

\* The host "a.b.c" meets the rule (^|\.)b\.c$ of the files.
QueryHosts(ip) == {NoHost, IpText(ip), HostText(<<(<<97>>), (<<98>>), (<<99>>)>>, 0)}

\* Acl::from_str reads one more line of the file; the file is read before
\* any connection is accepted.
ParseLine(line) ==
    /\ ~acl.some
    /\ aclq.n = 0
    /\ acl.p.n < MaxLines
    /\ acl' = [acl EXCEPT !.p = [AclLine(@, StripLine(line)) EXCEPT !.n = @ + 1],
                          !.q = [AclLine(@, StripLineTrimmed(line)) EXCEPT !.n = @ + 1],
                          !.commented = IF line.comment THEN @ \cup {line.body.kind} ELSE @]
    /\ UNCHANGED <<baseVars, counter, ips, aclq, loc, cp, rem>>

\* Ctx::set_acl with the ACL that was read.
SetAcl ==
    /\ ~acl.some
    /\ aclq.n = 0
    /\ acl' = [acl EXCEPT !.some = TRUE, !.acl = acl.p.acl]
    /\ UNCHANGED <<baseVars, counter, ips, aclq, loc, cp, rem>>

\* A connection asks the context; the ACL is not touched by it.
Query(op, ip, host) ==
    /\ aclq' = [op |-> op, ip |-> ip, host |-> host,
                result |-> IF op = "bypass" THEN CtxIsBypass(acl, ip, host)
                           ELSE CtxIsBlockOutbound(acl, ip, host),
                n |-> IF aclq.n < 2 THEN aclq.n + 1 ELSE 2]
    /\ UNCHANGED <<baseVars, counter, ips, acl, loc, cp, rem>>

NextAcl ==
    \/ \E line \in AclLines : ParseLine(line)
    \/ SetAcl
    \/ \E op \in {"bypass", "block"}, ip \in QueryIps : \E host \in QueryHosts(ip) : Query(op, ip, host)

SpecAcl == Init /\ [][NextAcl]_vars

\* ----------------------------------------------------- the local relay: pure
\* The labels of a name: its bytes split at the dots.
RECURSIVE SplitAt(_, _, _)
SplitAt(s, sep, cur) ==
    IF s = <<>> THEN <<cur>>
    ELSE IF s[1] = sep THEN <<cur>> \o SplitAt(Drop(s, 1), sep, <<>>)
    ELSE SplitAt(Drop(s, 1), sep, Append(cur, s[1]))

Labels(name) == SplitAt(name, 46, <<>>)

\* The address a socket address holds, from the octets or segments of the
\* request, cut to the bits the model keeps.
IpOfTarget(t) ==
    IF t.form = "Ipv4"
    THEN [fam |-> "v4", bits |-> [i \in 1..MAXIMUM_IPV4_MASK |-> (t.host[1] \div 2 ^ (8 - i)) % 2]]
    ELSE [fam |-> "v6", bits |-> [i \in 1..MAXIMUM_IPV6_MASK |-> (t.host[1] \div 2 ^ (16 - i)) % 2]]

\* target_addr.to_string().split(':').next(): the dotted quad of an IPv4
\* target, the name up to its first colon, and "[" for an IPv6 target, whose
\* display form is [segments]:port.
LocalHost(t) ==
    CASE t.form = "Ipv4" -> IpText(IpOfTarget(t))
      [] t.form = "Ipv6" -> HostText(<<(<<91>>)>>, 0)
      [] OTHER -> HostText(Labels(SplitAt(t.host, 58, <<>>)[1]), 0)

\* The match on the resolved address: the arm taken.
LocalRouteResolvedOnly(c, t, resolved, ip) ==
    IF resolved
    THEN IF CtxIsBypass(c, ip, LocalHost(t)) THEN "direct" ELSE "proxy"
    ELSE "drop"

LocalRoute(c, t, resolved, ip) ==
    IF resolved /\ CtxIsBypass(c, ip, LocalHost(t)) THEN "direct" ELSE "proxy"

\* What the proxy arm writes first into the encrypted stream.
LocalFirstWriteNone(t) == <<>>

LocalFirstWrite(t) == get_raw_parts(t)

\* Acl::from_str over the lines of a file.
RECURSIVE AclFold(_, _)
AclFold(p, lines) ==
    IF lines = <<>> THEN p ELSE AclFold(AclLine(p, StripLine(lines[1])), Drop(lines, 1))

AclFromStr(lines) == AclFold(ParserNew, lines).acl

\* --------------------------------------------------------- the local relay
\* Destinations a SOCKS5 request can name: addresses in both halves of each
\* family and the names "a.b", "b" and "c".
LocalTargets ==
    {[form |-> "Ipv4", host |-> <<h, 0, 0, 1>>, port |-> 80] : h \in {1, 192}}
    \cup {[form |-> "Ipv6", host |-> <<s, 0, 0, 0, 0, 0, 0, 1>>, port |-> 80] : s \in {1, 65152}}
    \cup {[form |-> "DomainName", host |-> n, port |-> 80] : n \in {<<97, 46, 98>>, <<98>>, <<99>>}}

\* ACL files of a local: none loaded, the upper half of IPv4 bypassed, the
\* names under "b" bypassed, and everything bypassed but the names under "b".
LocalAclFiles ==
    {<<AclLineOf(CidrBody([addr |-> [fam |-> "v4", bits |-> [i \in 1..MAXIMUM_IPV4_MASK |-> 1]],
                           mask |-> 1]), FALSE, FALSE)>>,
     <<AclLineOf(RegexBody([kind |-> "suffix", labels |-> <<(<<98>>)>>]), FALSE, FALSE)>>,
     <<AclLineOf(HeaderBody("[bypass_all]"), FALSE, FALSE),
       AclLineOf(HeaderBody("[proxy_list]"), FALSE, FALSE),
       AclLineOf(RegexBody([kind |-> "suffix", labels |-> <<(<<98>>)>>]), FALSE, FALSE)>>}

PayloadBytes == {7, 8}

\* Addresses lookup_host returns.
ResolveIps == {IpOfTarget(t) : t \in {u \in LocalTargets : u.form # "DomainName"}}

\* main: Ctx::set_acl(Acl::from_file(path)) before the listener starts.
LocalSetAcl(file) ==
    /\ loc.pc = "accepted" /\ ~acl.some
    /\ acl' = [acl EXCEPT !.some = TRUE, !.acl = AclFromStr(file)]
    /\ UNCHANGED <<baseVars, counter, ips, aclq, loc, cp, rem>>

\* 1. socks5::handshake returned: an address or an error.
LocalHandshake(ok, t) ==
    /\ loc.pc = "accepted"
    /\ loc' = IF ok THEN [loc EXCEPT !.pc = "resolve", !.target = t]
              ELSE [loc EXCEPT !.pc = "closed"]
    /\ UNCHANGED <<baseVars, counter, ips, acl, aclq, cp, rem>>

\* 2. lookup_host: an address literal resolves to itself, a name to some
\* address or to nothing; 3. the match picks the arm.
LocalResolve(ok, ip) ==
    /\ loc.pc = "resolve"
    /\ IF loc.target.form = "DomainName" THEN TRUE ELSE ok /\ ip = IpOfTarget(loc.target)
    /\ ok \/ ip = CHOOSE x \in ResolveIps : TRUE
    /\ loc' = [loc EXCEPT !.pc = "dial", !.resolved = ok, !.ip = IF ok THEN ip ELSE NoIp,
                          !.arm = LocalRoute(acl, loc.target, ok, ip)]
    /\ UNCHANGED <<baseVars, counter, ips, acl, aclq, cp, rem>>

\* 3.1 TcpStream::connect to the destination or to ss-remote.
LocalDial(connected) ==
    /\ loc.pc = "dial"
    /\ loc' = CASE loc.arm = "direct" ->
                     [loc EXCEPT !.direct = @ + 1,
                                 !.pc = IF connected THEN "transfer" ELSE "closed"]
                [] loc.arm = "proxy" ->
                     [loc EXCEPT !.remote = @ + 1, !.enc = connected,
                                 !.pc = IF connected THEN "write_addr" ELSE "closed"]
                [] OTHER -> [loc EXCEPT !.pc = "closed"]
    /\ UNCHANGED <<baseVars, counter, ips, acl, aclq, cp, rem>>

\* 3.2 write_all of the target address into the encrypted stream.
LocalWriteAddr(ok) ==
    /\ loc.pc = "write_addr"
    /\ loc' = IF ok THEN [loc EXCEPT !.pc = "transfer", !.tun = @ \o LocalFirstWrite(loc.target)]
              ELSE [loc EXCEPT !.pc = "closed"]
    /\ UNCHANGED <<baseVars, counter, ips, acl, aclq, cp, rem>>

\* 3.3 transfer copies a byte of the client to the stream it dialed.
LocalCopy(b) ==
    /\ loc.pc = "transfer" /\ loc.copied < MaxCopied
    /\ loc' = IF loc.arm = "proxy"
              THEN [loc EXCEPT !.tun = Append(@, b), !.copied = @ + 1]
              ELSE [loc EXCEPT !.out = Append(@, b), !.copied = @ + 1]
    /\ UNCHANGED <<baseVars, counter, ips, acl, aclq, cp, rem>>

LocalEnd ==
    /\ loc.pc = "transfer"
    /\ loc' = [loc EXCEPT !.pc = "closed"]
    /\ UNCHANGED <<baseVars, counter, ips, acl, aclq, cp, rem>>

NextLocal ==
    \/ \E file \in LocalAclFiles : LocalSetAcl(file)
    \/ \E ok \in BOOLEAN, t \in LocalTargets : LocalHandshake(ok, t)
    \/ \E ok \in BOOLEAN, ip \in ResolveIps : LocalResolve(ok, ip)
    \/ \E connected \in BOOLEAN : LocalDial(connected)
    \/ \E ok \in BOOLEAN : LocalWriteAddr(ok)
    \/ \E b \in PayloadBytes : LocalCopy(b)
    \/ LocalEnd

SpecLocal == Init /\ [][NextLocal]_vars

\* ------------------------------------------------------- transfer_between
\* The loop condition, and the return after the loop.
TransferLoop(c) ==
    IF \A d \in Dirs : c.done[d] THEN [c EXCEPT !.result = "Ok", !.ret = c.n] ELSE c

\* The arm of a copy_once that returned Ok(0).
TransferEofEndsBoth(c, d) ==
    [c EXCEPT !.done = [e \in Dirs |-> TRUE], !.shut[WriterOf(d)] = @ + 1]

TransferEof(c, d) == [c EXCEPT !.done[d] = TRUE, !.shut[WriterOf(d)] = @ + 1]

\* Time passes while the select! waits: the sleep was created with it.
TransferTick ==
    /\ cp.result = "running"
    /\ cp.slept < TransferSecs
    /\ cp' = [cp EXCEPT !.slept = @ + 1]
    /\ UNCHANGED <<baseVars, counter, ips, acl, aclq, loc, rem>>

\* The sleep arm wins.
TransferTimeout ==
    /\ cp.result = "running"
    /\ cp.slept = TransferSecs
    /\ cp' = [cp EXCEPT !.result = "TimedOut"]
    /\ UNCHANGED <<baseVars, counter, ips, acl, aclq, loc, rem>>

\* The copy_once of direction d wins with Ok(0), Ok(k) or Err(e); the next
\* turn of the loop makes a new sleep.
TransferCopy(d, res, k) ==
    /\ cp.result = "running"
    /\ ~cp.done[d]
    /\ cp.steps < MaxSteps
    /\ cp' = CASE res = "Zero" ->
                    TransferLoop([TransferEof(cp, d) EXCEPT !.slept = 0, !.steps = @ + 1])
               [] res = "Data" ->
                    [cp EXCEPT !.n[d] = @ + k, !.slept = 0, !.steps = @ + 1]
               [] OTHER -> [cp EXCEPT !.result = "Error"]
    /\ UNCHANGED <<baseVars, counter, ips, acl, aclq, loc, rem>>

NextTransfer ==
    \/ TransferTick
    \/ TransferTimeout
    \/ \E d \in Dirs, res \in {"Zero", "Data", "Error"}, k \in 1..MAXIMUM_PAYLOAD_SIZE :
          TransferCopy(d, res, k)

SpecTransfer == Init /\ [][NextTransfer]_vars

\* -------------------------------------------------------- the remote relay
\* target_addr.to_string(), the host handed to is_block_outbound: the name or
\* the address followed by a colon and the port.
RemoteHost(t) ==
    IF t.form = "DomainName" THEN HostText(Labels(t.host), t.port)
    ELSE SocketText(IpOfTarget(t), t.port)

\* 1. the peer passes unless ctx.is_bypass(peer.ip(), None).
RemoteAdmit(c, peer) == ~CtxIsBypass(c, peer, NoHost)

\* 4. the destination passes unless ctx.is_block_outbound(ip, host).
RemoteAllowAll(c, ip, t) == TRUE

RemoteAllow(c, ip, t) == ~CtxIsBlockOutbound(c, ip, RemoteHost(t))

\* ACL files of a remote: the upper half of IPv4 rejected as peers, the upper
\* half of IPv4 blocked as destinations, the address 0.0.0.1 blocked by a
\* rule, and the names under "b" blocked by the rule (^|\.)b$.
RemoteAclFiles ==
    {<<AclLineOf(CidrBody([addr |-> [fam |-> "v4", bits |-> [i \in 1..MAXIMUM_IPV4_MASK |-> 1]],
                           mask |-> 1]), FALSE, FALSE)>>,
     <<AclLineOf(HeaderBody("[outbound_block_list]"), FALSE, FALSE),
       AclLineOf(CidrBody([addr |-> [fam |-> "v4", bits |-> [i \in 1..MAXIMUM_IPV4_MASK |-> 1]],
                           mask |-> 1]), FALSE, FALSE)>>,
     <<AclLineOf(HeaderBody("[outbound_block_list]"), FALSE, FALSE),
       AclLineOf(RegexBody([kind |-> "ip",
                            addr |-> [fam |-> "v4", bits |-> [i \in 1..MAXIMUM_IPV4_MASK |-> 0]]]),
                 FALSE, FALSE)>>,
     <<AclLineOf(HeaderBody("[outbound_block_list]"), FALSE, FALSE),
       AclLineOf(RegexBody([kind |-> "suffix", labels |-> <<(<<98>>)>>]), FALSE, FALSE)>>}

RemoteSetAcl(file) ==
    /\ rem.pc = "listening" /\ ~acl.some
    /\ acl' = [acl EXCEPT !.some = TRUE, !.acl = AclFromStr(file)]
    /\ UNCHANGED <<baseVars, counter, ips, aclq, loc, cp, rem>>

RemoteAccept(peer) ==
    /\ rem.pc = "listening"
    /\ rem' = IF RemoteAdmit(acl, peer)
              THEN [rem EXCEPT !.pc = "construct", !.peer = peer, !.log = Append(@, "admitted")]
              ELSE [rem EXCEPT !.pc = "rejected", !.peer = peer]
    /\ UNCHANGED <<baseVars, counter, ips, acl, aclq, loc, cp>>

\* 2. a read of Socks5Addr::construct returns: part of the address, the
\* last part of an address, an error of kind Other, or another error.
RemoteRead(outcome, t) ==
    /\ rem.pc = "construct"
    /\ rem.reads < MaxReads \/ outcome # "Part"
    /\ rem' = CASE outcome = "Part" -> [rem EXCEPT !.reads = @ + 1]
                [] outcome = "Address" ->
                     [rem EXCEPT !.reads = Min(@ + 1, MaxReads), !.pc = "resolve", !.target = t,
                                 !.log = Append(@, "address")]
                [] outcome = "Other" -> [rem EXCEPT !.reads = Min(@ + 1, MaxReads), !.pc = "drain"]
                [] OTHER -> [rem EXCEPT !.reads = Min(@ + 1, MaxReads), !.pc = "closed"]
    /\ UNCHANGED <<baseVars, counter, ips, acl, aclq, loc, cp>>

\* read_to_end: data is discarded, end-of-stream and errors end it.
RemoteDrain(outcome) ==
    /\ rem.pc = "drain"
    /\ rem.reads < MaxReads \/ outcome # "Data"
    /\ rem' = IF outcome = "Data" THEN [rem EXCEPT !.reads = @ + 1]
              ELSE [rem EXCEPT !.pc = "closed"]
    /\ UNCHANGED <<baseVars, counter, ips, acl, aclq, loc, cp>>

\* 3. lookup_host, as on the local side.
RemoteResolve(ok, ip) ==
    /\ rem.pc = "resolve"
    /\ IF rem.target.form = "DomainName" THEN TRUE ELSE ok /\ ip = IpOfTarget(rem.target)
    /\ ok \/ ip = CHOOSE x \in ResolveIps : TRUE
    /\ rem' = IF ok THEN [rem EXCEPT !.pc = "check", !.ip = ip, !.log = Append(@, "resolved")]
              ELSE [rem EXCEPT !.pc = "closed"]
    /\ UNCHANGED <<baseVars, counter, ips, acl, aclq, loc, cp>>

RemoteCheck ==
    /\ rem.pc = "check"
    /\ rem' = IF RemoteAllow(acl, rem.ip, rem.target)
              THEN [rem EXCEPT !.pc = "connect", !.log = Append(@, "allowed")]
              ELSE [rem EXCEPT !.pc = "closed"]
    /\ UNCHANGED <<baseVars, counter, ips, acl, aclq, loc, cp>>

\* 5. TcpStream::connect, then 6. transfer until it returns.
RemoteConnect(connected) ==
    /\ rem.pc = "connect"
    /\ rem' = [rem EXCEPT !.pc = IF connected THEN "transfer" ELSE "closed",
                          !.dials = @ + 1, !.log = Append(@, "dial")]
    /\ UNCHANGED <<baseVars, counter, ips, acl, aclq, loc, cp>>

RemoteEnd ==
    /\ rem.pc = "transfer"
    /\ rem' = [rem EXCEPT !.pc = "closed"]
    /\ UNCHANGED <<baseVars, counter, ips, acl, aclq, loc, cp>>

NextRemote ==
    \/ \E file \in RemoteAclFiles : RemoteSetAcl(file)
    \/ \E peer \in QueryIps : RemoteAccept(peer)
    \/ \E outcome \in {"Part", "Address", "Other", "UnexpectedEof"}, t \in LocalTargets :
          RemoteRead(outcome, t)
    \/ \E outcome \in {"Data", "Zero", "Error"} : RemoteDrain(outcome)
    \/ \E ok \in BOOLEAN, ip \in ResolveIps : RemoteResolve(ok, ip)
    \/ RemoteCheck
    \/ \E connected \in BOOLEAN : RemoteConnect(connected)
    \/ RemoteEnd

SpecRemote == Init /\ [][NextRemote]_vars

\* --------------------------------------- SOCKS4 over a buffering socket
\* SOCKS4 and SOCKS4a requests, version byte included: CONNECT 10.0.0.1:80
\* with an empty userid, and CONNECT "b":80 with the userid "a"; and what a
\* client may send right behind its request.
Socks4Requests ==
    {<<SOCKS4_VERSION, COMMAND_CONNECT, 0, 80, 10, 0, 0, 1, 0>>,
     <<SOCKS4_VERSION, COMMAND_CONNECT, 0, 80, 0, 0, 0, 1, 97, 0, 98, 0>>}
EarlyData == {<<>>, <<7>>, <<7, 8>>}

\* The client connects; socks::handshake starts with the version byte.
AheadAccept(req, more) ==
    /\ hs.pc = "idle"
    /\ hs' = [hs EXCEPT !.entry = "socks", !.pc = "version", !.want = 1,
                        !.plan = req \o more, !.reqlen = Len(req)]
    /\ UNCHANGED <<coreVars, timeVars, codec>>

\* The next k bytes of the client arrive in the socket.
AheadArrive(k) ==
    /\ hs.pc # "idle"
    /\ hs.sent + k <= Len(hs.plan)
    /\ hs' = [hs EXCEPT !.sent = @ + k,
                        !.sock = @ \o SubSeq(hs.plan, hs.sent + 1, hs.sent + k)]
    /\ UNCHANGED <<coreVars, timeVars, codec>>

\* The bytes read_until(0x00, ..) takes from what the BufReader holds.
UntilLen(rb) ==
    IF \E i \in 1..Len(rb) : rb[i] = 0
    THEN CHOOSE i \in 1..Len(rb) : rb[i] = 0 /\ \A j \in 1..(i - 1) : rb[j] # 0
    ELSE Len(rb)

\* A read ended: the stage is decided, and a BufReader that goes out of
\* scope takes what it holds with it.
AheadAdvance(h, got) ==
    LET Out(a) == IF a.pc \in {"done", "failed"}
                  THEN [a EXCEPT !.dropped = h.rbuf, !.rbuf = <<>>]
                  ELSE a
    IN Out(Advance(h, got, SocksHandshake(h.pc, got)))

AheadTake(h, got) ==
    IF ReadComplete(h.pc, h.want, got) THEN AheadAdvance(h, got) ELSE [h EXCEPT !.got = got]

\* One poll of the read the handshake is waiting in.  The version and the
\* command are read from the stream itself; Socks4Addr::construct reads
\* through BufReader::new(reader), which, when it holds nothing, first fills
\* its buffer with whatever the socket has.
AheadRead ==
    /\ hs.pc \in Socks4Stages \cup {"version"}
    /\ hs.sock # <<>> \/ hs.rbuf # <<>>
    /\ IF hs.pc \in {"version", "cd"}
       THEN hs' = AheadTake([hs EXCEPT !.sock = Tail(@), !.taken = Append(@, hs.sock[1]),
                                       !.inp = Append(@, hs.sock[1])],
                            <<hs.sock[1]>>)
       ELSE LET Use(rb, k, h) ==
                    AheadTake([h EXCEPT !.rbuf = Drop(rb, k), !.inp = @ \o Take(rb, k)],
                              hs.got \o Take(rb, k))
                Fill(rb, h) ==
                    Use(rb, IF hs.pc \in UntilStages THEN UntilLen(rb)
                            ELSE Min(hs.want - Len(hs.got), Len(rb)), h)
            IN hs' = IF hs.rbuf # <<>> THEN Fill(hs.rbuf, hs)
                     ELSE Fill(hs.sock, [hs EXCEPT !.sock = <<>>, !.taken = @ \o hs.sock])
    /\ UNCHANGED <<coreVars, timeVars, codec>>

NextAhead ==
    \/ \E req \in Socks4Requests, more \in EarlyData : AheadAccept(req, more)
    \/ \E k \in 1..(MaxField + 1) : AheadArrive(k)
    \/ AheadRead

SpecAhead == Init /\ [][NextAhead]_vars

\* ------------------------------------- transfer_between, poll by poll
OtherDir(d) == IF d = "ab" THEN "ba" ELSE "ab"

\* select! returns with the arm of direction d: the copy_once future of the
\* other direction is dropped, and with it the payload buffer it owns.
SelectDrop(c, d) ==
    [c EXCEPT !.lost[OtherDir(d)] = @ + c.held[OtherDir(d)],
              !.held[OtherDir(d)] = 0, !.size[OtherDir(d)] = 0,
              !.held[d] = 0, !.size[d] = 0]

\* The arm of a copy_once that returned Ok(n), n > 0.
TransferData(c, d, n) == [c EXCEPT !.n[d] = @ + n, !.slept = 0, !.steps = @ + 1]

\* A poll of direction d's copy_once in which reader.read returns k bytes
\* and write_all gets j of them written before the writer is Pending.
CopyOnceRead(d, k, j) ==
    /\ cp.result = "running"
    /\ ~cp.done[d]
    /\ cp.steps < MaxSteps
    /\ cp.size[d] = 0
    /\ j <= k
    /\ cp' = IF j = k
             THEN SelectDrop(TransferData([cp EXCEPT !.got[d] = @ + k, !.put[d] = @ + k],
                                          d, k), d)
             ELSE [cp EXCEPT !.got[d] = @ + k, !.put[d] = @ + j,
                             !.size[d] = k, !.held[d] = k - j]
    /\ UNCHANGED <<baseVars, counter, ips, acl, aclq, loc, rem>>

\* A later poll of the same copy_once: write_all gets j more bytes written.
CopyOnceWrite(d, j) ==
    /\ cp.result = "running"
    /\ cp.held[d] > 0
    /\ j <= cp.held[d]
    /\ cp' = IF j = cp.held[d]
             THEN SelectDrop(TransferData([cp EXCEPT !.put[d] = @ + j], d, cp.size[d]), d)
             ELSE [cp EXCEPT !.put[d] = @ + j, !.held[d] = @ - j]
    /\ UNCHANGED <<baseVars, counter, ips, acl, aclq, loc, rem>>

\* reader.read of direction d returns 0, or the copy_once fails.
CopyOnceEnd(d, res) ==
    /\ cp.result = "running"
    /\ ~cp.done[d]
    /\ cp.steps < MaxSteps
    /\ cp.size[d] = 0
    /\ cp' = IF res = "Zero"
             THEN TransferLoop(SelectDrop([TransferEof(cp, d) EXCEPT !.slept = 0,
                                                                    !.steps = @ + 1], d))
             ELSE [cp EXCEPT !.result = "Error"]
    /\ UNCHANGED <<baseVars, counter, ips, acl, aclq, loc, rem>>

NextCancel ==
    \/ TransferTick
    \/ TransferTimeout
    \/ \E d \in Dirs, k \in 1..MAXIMUM_PAYLOAD_SIZE, j \in 0..MAXIMUM_PAYLOAD_SIZE :
          CopyOnceRead(d, k, j)
    \/ \E d \in Dirs, j \in 1..MAXIMUM_PAYLOAD_SIZE : CopyOnceWrite(d, j)
    \/ \E d \in Dirs, res \in {"Zero", "Error"} : CopyOnceEnd(d, res)

SpecCancel == Init /\ [][NextCancel]_vars

\* ------------------------------------------- a write polled with new data
\* The caller of a write that returned Pending polls it again with a buffer
\* of another length: tokio's copy buffer tops its buffer up from the reader
\* while the writer is Pending and then offers the longer slice.
Repoll(len) ==
    /\ wcall.active /\ wcall.mode = "write" /\ wcall.polls = 1 /\ ~wcall.zero
    /\ ~closed
    /\ len # Len(wcall.buf)
    /\ wcall' = [wcall EXCEPT !.buf = SubSeq(src, Len(consumed) + 1, Len(consumed) + len)]
    /\ UNCHANGED <<src, wr, consumed, emits, wlast, nEmpty, wire, closed, rd, delivered,
                   rlast, decLog, ctx, advVars, bloomVars, frontVars>>

RepollLens == {1, MAXIMUM_PAYLOAD_SIZE}

InitRepoll ==
    /\ InitCommon
    /\ src = CountingBytes(MAXIMUM_PAYLOAD_SIZE + 1)
    /\ ctx = CtxNew

NextRepoll ==
    \/ \E len \in RepollLens : len <= Remaining /\ StartWrite(len)
    \/ PollWrite
    \/ \E len \in RepollLens : len <= Remaining /\ Repoll(len)
    \/ PollRead

SpecRepoll == InitRepoll /\ [][NextRepoll]_vars

\* ------------------------------------- the remote relay fed in small records
\* A client that writes the destination address and the first byte of its
\* data in pieces of its own choosing, each piece one write call and so one
\* record; Socks5Addr::construct reads them with read_exact, which polls
\* again with the same, partly filled ReadBuf.
FirstData == <<1>>

InitPieces ==
    /\ InitCommon
    /\ src = TargetAddrBytes \o FirstData
    /\ ctx = CtxNew

WritePiece(len) ==
    /\ len <= Remaining
    /\ StartWrite(len)

NextPieces ==
    \/ \E len \in 1..MAXIMUM_PAYLOAD_SIZE : WritePiece(len)
    \/ AdvPollWrite
    \/ \E k \in 1..TransportCap : Replay(1, k)
    \/ RelayAccept(1, FALSE)
    \/ RelayConstruct(1)
    \/ \E resolved \in BOOLEAN, blocked \in BOOLEAN : RelayResolve(1, resolved, blocked)
    \/ \E connected \in BOOLEAN : RelayConnect(1, connected)

SpecPieces == InitPieces /\ [][NextPieces]_vars

\* ------------------------------------------------------------ Nonce in use
\* The bytes a nonce is made of here: both ends of the range and their
\* neighbours.
NonceBytes == {0, 1, ByteMod - 2, ByteMod - 1}
RECURSIVE NoncesOfLen(_)
NoncesOfLen(len) ==
    IF len = 0 THEN {<<>>}
    ELSE {<<b>> \o v : b \in NonceBytes, v \in NoncesOfLen(len - 1)}
NonceValues == UNION {NoncesOfLen(len) : len \in 1..NonceLen}

InitNonce ==
    /\ InitButCounter
    /\ src = <<>>
    /\ ctx = CtxNew
    /\ \E v \in NonceValues : counter = [CounterNew EXCEPT !.value = v]

\* Nonce::new(len)
CounterRenew(len) ==
    /\ counter.op # "new"
    /\ counter' = [value |-> NonceNew(len), prev |-> counter.value, op |-> "new", n |-> 0]
    /\ UNCHANGED <<baseVars, ips, acl, aclq, loc, cp, rem>>

\* Nonce::increment
CounterIncrement ==
    /\ counter.n < MaxIncrements
    /\ counter' = [value |-> NonceIncrement(counter.value), prev |-> counter.value,
                   op |-> "increment", n |-> counter.n + 1]
    /\ UNCHANGED <<baseVars, ips, acl, aclq, loc, cp, rem>>

NextNonce ==
    \/ \E len \in 1..NonceLen : CounterRenew(len)
    \/ CounterIncrement

SpecNonce == InitNonce /\ [][NextNonce]_vars

\* ----------------------------------------------------------------- claims
IsPrefix(a, b) == Len(a) <= Len(b) /\ a = Take(b, Len(a))
CeilDiv(a, b) == (a + b - 1) \div b
SelectKind(ops, kinds) == SelectSeq(ops, LAMBDA o : o.kind \in kinds)

\* The writer is between calls, the transport holds nothing and the reader
\* has handed out all of the last record it opened.
Quiescent ==
    /\ ~wcall.active
    /\ wire = <<>>
    /\ rd[1].read_state.s # "ReadPayloadOut"

\* C1: over the honest transport, with every write call polled to completion,
\* the plaintext returned by reads is at every moment a prefix of the bytes
\* the write calls reported as consumed, and equals them once the transport
\* has delivered everything.
C1_NoLossNoReorder ==
    /\ IsPrefix(delivered[1], consumed)
    /\ Quiescent => delivered[1] = consumed

C1_Witness ==
    /\ Quiescent
    /\ Len(consumed) = MaxTotal
    /\ delivered[1] = consumed
    /\ rd[1].dec_nonce[1] >= 6

RecordOps(ops) == SelectKind(ops, {"length", "payload"})

\* C7 (as claimed): every payload record the writer emits has a length len
\* with 0 < len <= MAXIMUM_PAYLOAD_SIZE, and the length field before it
\* carries that len with the two top bits zero.
C7_LengthBound ==
    wlast.valid =>
        LET r == RecordOps(wlast.ops)
        IN \A i \in 1..Len(r) :
              r[i].kind = "payload" =>
                  /\ 0 < Len(r[i].pt)
                  /\ Len(r[i].pt) <= MAXIMUM_PAYLOAD_SIZE
                  /\ i > 1
                  /\ r[i - 1].kind = "length"
                  /\ LengthUnmasked(r[i - 1].pt) = Len(r[i].pt)
                  /\ LengthUnmasked(r[i - 1].pt) <= MAXIMUM_PAYLOAD_SIZE

\* C8: a completed write call emits exactly one length-record followed by
\* exactly one payload-record carrying the first min(n, MAXIMUM_PAYLOAD_SIZE)
\* bytes of the caller's n-byte buffer and returns that count; write_all of N
\* bytes emits ceil(N / MAXIMUM_PAYLOAD_SIZE) payload records, three for
\* N = 2 * MAXIMUM_PAYLOAD_SIZE + 2; the salt is emitted once, before the
\* first record.
C8_OneRecordPerWrite ==
    /\ wlast.valid =>
          LET r == RecordOps(wlast.ops)
              n == Min(Len(wlast.buf), MAXIMUM_PAYLOAD_SIZE)
          IN /\ Len(r) = 2
             /\ r[1].kind = "length"
             /\ r[2].kind = "payload"
             /\ r[2].pt = Take(wlast.buf, n)
             /\ wlast.ret = n
             /\ \A i \in 1..Len(wlast.ops) : wlast.ops[i].kind = "salt" => i = 1
    /\ (wlast.valid /\ wlast.mode = "write_all" /\ wlast.done) =>
          /\ wlast.recs = CeilDiv(wlast.n0, MAXIMUM_PAYLOAD_SIZE)
          /\ wlast.n0 = 2 * MAXIMUM_PAYLOAD_SIZE + 2 => wlast.recs = 3
    /\ \A i \in 1..Len(emits) : emits[i].kind = "salt" <=> i = 1

C8_Witness ==
    /\ wlast.valid /\ wlast.mode = "write_all" /\ wlast.done
    /\ wlast.n0 = 2 * MAXIMUM_PAYLOAD_SIZE + 2
    /\ wlast.recs = 3
    /\ Len(emits) = 7

\* C10 (as claimed): when the transport is at end-of-stream, a read reports a
\* clean end (zero bytes, no error) if no byte of the next salt, length-record
\* or payload-record had been consumed, and an UnexpectedEof error if part of
\* such a unit had been.
C10_EofReport ==
    \A c \in Conns :
        rlast[c].raw = "UnexpectedEof" =>
            IF rlast[c].partial
            THEN rlast[c].res = "UnexpectedEof"
            ELSE rlast[c].res = "Ok" /\ rlast[c].n = 0

\* C3: check_and_insert(s) returns true the first time s is presented and
\* false whenever s is held by one of the two filters; a call that returns
\* false leaves filters, active index and counter unchanged.
C3_SaltOnce ==
    hist.valid =>
        /\ hist.first => hist.ret
        /\ hist.salt \in (hist.before.filters[1] \cup hist.before.filters[2]) => ~hist.ret
        /\ ~hist.ret => ctx.bloom = hist.before

\* a salt held only by the inactive filter is refused after the rotation
C3_Witness ==
    /\ hist.valid /\ ~hist.first /\ ~hist.ret
    /\ hist.before.current = 1
    /\ hist.salt \in hist.before.filters[1]
    /\ hist.salt \notin hist.before.filters[2]

\* C4 (as claimed): whenever the active filter has received
\* EXPECTED_NUM_ITEMS insertions since it became active the filters swap, so
\* the insertions since the last swap stay below EXPECTED_NUM_ITEMS and no
\* filter holds more than EXPECTED_NUM_ITEMS salts.
C4_RotationRecurs ==
    /\ hist.sinceSwap < EXPECTED_NUM_ITEMS
    /\ \A i \in 1..2 : Cardinality(ctx.bloom.filters[i]) <= EXPECTED_NUM_ITEMS

TrueFor(salt) == {t \in Tasks : tasks[t].salt = salt /\ tasks[t].ret}
CallersOf(salt) == {t \in Tasks : tasks[t].pc # "idle" /\ tasks[t].salt = salt}

\* C5: of the tasks that call check_replay concurrently with the same fresh
\* salt exactly one gets true and every other one false, and no task is
\* between lock and unlock while another one is.
C5_AtomicCheckAndInsert ==
    /\ \A salt \in TaskSalts :
          /\ Cardinality(TrueFor(salt)) <= 1
          /\ (CallersOf(salt) # {} /\ \A t \in CallersOf(salt) : tasks[t].pc = "done")
                => Cardinality(TrueFor(salt)) = 1
    /\ Cardinality({t \in Tasks : tasks[t].pc \in {"check", "insert", "unlock"}}) <= 1

C5_Witness ==
    /\ \A t \in Tasks : tasks[t].pc = "done" /\ tasks[t].salt = SaltOf(1)
    /\ Cardinality(TrueFor(SaltOf(1))) = 1

\* C2: when two connections are fed the same recorded salt and first
\* length-record, one of them is accepted and the other one fails with
\* DuplicateSalt before any plaintext byte of it has been delivered, and the
\* relay of the refused connection never dials a destination.
C2_ReplayRefused ==
    /\ \A c \in Conns :
          /\ rlast[c].res = "DuplicateSalt" => delivered[c] = <<>>
          /\ rlast[c].replay = "duplicate" =>
                /\ rlast[c].failed
                /\ ~relay[c].dialed
                /\ relay[c].pc \in {"drain", "closed"}
          /\ rlast[c].replay = "fresh" => ~rlast[c].failed
    /\ \A c \in Conns, d \in Conns :
          (c # d /\ rlast[c].replay # "none" /\ rlast[d].replay # "none")
              => {rlast[c].replay, rlast[d].replay} = {"fresh", "duplicate"}

C2_Witness ==
    /\ rlast[1].replay = "fresh"
    /\ relay[1].pc = "transfer"
    /\ rlast[2].replay = "duplicate"
    /\ relay[2].pc = "closed"
    /\ delivered[2] = <<>>

RECURSIVE NonceValue(_)
NonceValue(v) == IF v = <<>> THEN 0 ELSE v[1] + ByteMod * NonceValue(Tail(v))

OkBefore(log, i) == Cardinality({j \in 1..(i - 1) : log[j].ok})

\* the AEAD operations of a log use the nonces the claim prescribes
NonceDiscipline(log) ==
    \A i \in 1..Len(log) :
        /\ NonceValue(log[i].nonce) = OkBefore(log, i)
        /\ log[i].ok =>
              log[i].kind = (IF OkBefore(log, i) % 2 = 0 THEN "length" ELSE "payload")

Sealed == [i \in 1..Len(RecordOps(emits)) |->
              [nonce |-> RecordOps(emits)[i].nonce, kind |-> RecordOps(emits)[i].kind,
               ok |-> TRUE]]

\* C6: per direction the k-th successful AEAD operation (k from zero) uses
\* nonce k, a failed decryption does not advance the nonce, and record j
\* uses nonce 2j for its length and 2j+1 for its payload.
C6_NonceSequence ==
    /\ NonceDiscipline(Sealed)
    /\ wr.enc_cipher # NoCipher => NonceValue(wr.enc_nonce) = Len(Sealed)
    /\ \A c \in Conns :
          /\ NonceDiscipline(RecordOps(decLog[c]))
          /\ NonceValue(rd[c].dec_nonce) = OkBefore(RecordOps(decLog[c]),
                                                    Len(RecordOps(decLog[c])) + 1)

\* a decryption fails and later ones succeed, starting from the same nonce
C6_Witness ==
    /\ Len(Sealed) >= 4
    /\ \E i, j \in 1..Len(RecordOps(decLog[1])) :
          /\ i < j
          /\ ~RecordOps(decLog[1])[i].ok
          /\ RecordOps(decLog[1])[j].ok
          /\ NonceValue(RecordOps(decLog[1])[j].nonce)
                = NonceValue(RecordOps(decLog[1])[i].nonce)

\* C9 (as claimed): after a read on a stream has failed with Decryption or
\* DuplicateSalt, no later read on that stream returns plaintext bytes.
C9_FailureIsFinal ==
    \A c \in Conns : rlast[c].after => rlast[c].n = 0

\* C11 (as claimed): a transport write that accepts zero bytes while the
\* outgoing buffer is non-empty makes the write call fail with BrokenPipe,
\* so no write call is left in its flush step for ever.
C11_ZeroWriteFails ==
    wcall.zero => wcall.err = "BrokenPipe"

\* C12: a poll of a timeout stream that finds the inner stream Pending after
\* the whole inactivity window has passed without a completed read or write
\* fails with TimedOut; and a relayed connection whose peers have both gone
\* silent ends with TimedOut, both of its sockets closed.
C12_InactivityTimeout ==
    /\ [](tlast.op # "none" /\ tlast.inner = "Pending" /\ tlast.before = 0
            => tlast.ret = "TimedOut")
    /\ (xfer.pc = "copying" /\ xfer.idle)
         ~> (xfer.pc = "ended" /\ xfer.result = "TimedOut"
             /\ ~timers.a.open /\ ~timers.b.open)

C12_Witness ==
    /\ xfer.idle
    /\ xfer.pc = "ended"
    /\ xfer.result = "TimedOut"
    /\ tlast.before = 0
    /\ ~timers.a.open
    /\ ~timers.b.open

C14_HandshakeDeadline ==
    xfer.pc = "handshake" => xfer.age <= HandshakeSecs

\* The bytes of a SOCKS5 client, as socks5::handshake reads them: the greeting
\* of 2 + nmethods bytes, then the request.
GreetingRead ==
    /\ hs.entry = "socks5"
    /\ Len(hs.inp) >= 2
    /\ hs.inp[1] = SOCKS5_VERSION
    /\ Len(hs.inp) >= 2 + hs.inp[2]
OfferedMethods == SubSeq(hs.inp, 3, 2 + hs.inp[2])
RequestRead ==
    /\ GreetingRead
    /\ METHOD_NO_AUTHENTICATION \in Range(OfferedMethods)
    /\ Len(hs.inp) >= 2 + hs.inp[2] + 3
RequestVer == hs.inp[2 + hs.inp[2] + 1]
RequestCmd == hs.inp[2 + hs.inp[2] + 2]
AddressBytes == SubSeq(hs.inp, 2 + hs.inp[2] + 4, Len(hs.inp))
ConstructStages == {"atyp", "ipv4", "len", "domain", "ipv6"}

\* C15: in stage 2 a version other than 5 fails with VersionInconsistent,
\* otherwise a command other than CONNECT fails with Command, otherwise the
\* address is parsed; the 10-byte frame is written only once the address has
\* parsed, so a handshake that succeeds has written exactly the 12 bytes
\* [05 00] and the frame, and one that has not succeeded has written at most
\* [05 00].
C15_Stage2 ==
    hs.entry = "socks5" =>
        /\ RequestRead =>
              /\ RequestVer # SOCKS5_VERSION =>
                    hs.res = "VersionInconsistent" /\ hs.v = RequestVer
              /\ RequestVer = SOCKS5_VERSION /\ RequestCmd # COMMAND_CONNECT =>
                    hs.res = "Command" /\ hs.v = RequestCmd
              /\ RequestVer = SOCKS5_VERSION /\ RequestCmd = COMMAND_CONNECT =>
                    \/ hs.pc \in ConstructStages
                    \/ hs.res \in {"UnexpectedEof", "InvalidAddressType", "DomainName"}
                    \/ /\ hs.res = "Ok"
                       /\ construct(AddressBytes) =
                             [res |-> "Ok", addr |-> hs.addr, used |-> Len(AddressBytes)]
        /\ hs.res = "Ok" =>
              /\ RequestRead
              /\ hs.out = Socks5MethodReply \o Socks5Reply
              /\ Len(hs.out) = 12
        /\ hs.res # "Ok" => hs.out \in {<<>>, Socks5MethodReply}

C15_Witness ==
    /\ hs.entry = "socks5"
    /\ hs.res = "Ok"
    /\ hs.addr.form = "DomainName"
    /\ hs.addr.host # <<>>
    /\ Len(hs.out) = 12

\* C16: stage 1 has replied [05 00] exactly when the method bytes the client
\* offered contain 0; when they do not, an empty list included, the handshake
\* has failed with Method and nothing was written.
C16_Stage1 ==
    hs.entry = "socks5" =>
        /\ GreetingRead =>
              IF METHOD_NO_AUTHENTICATION \in Range(OfferedMethods)
              THEN Len(hs.out) >= 2 /\ Take(hs.out, 2) = Socks5MethodReply
              ELSE hs.res = "Method" /\ hs.out = <<>>
        /\ hs.out # <<>> =>
              GreetingRead /\ METHOD_NO_AUTHENTICATION \in Range(OfferedMethods)

C16_Witness ==
    /\ hs.entry = "socks5"
    /\ hs.res = "Method"
    /\ hs.inp[2] = 2
    /\ hs.out = <<>>

\* C17: socks::handshake goes by the first byte of the stream: 4 enters the
\* SOCKS4a handshake, 5 the SOCKS5 handshake, and any other value fails with
\* Version(value), one byte read and none written.
C17_Dispatch ==
    hs.entry = "socks" /\ hs.inp # <<>> =>
        /\ hs.inp[1] = SOCKS4_VERSION =>
              /\ hs.proto = "socks4"
              /\ hs.pc \in Socks4Stages \cup {"done", "failed"}
              /\ hs.res = "Ok" => hs.out = Socks4Reply
        /\ hs.inp[1] = SOCKS5_VERSION =>
              /\ hs.proto = "socks5"
              /\ hs.pc \in {"nmethods", "methods", "request", "done", "failed"}
                              \cup ConstructStages
              /\ hs.res = "Ok" => hs.out = Socks5MethodReply \o Socks5Reply
        /\ hs.inp[1] \notin {SOCKS4_VERSION, SOCKS5_VERSION} =>
              /\ hs.proto = "none"
              /\ hs.pc = "failed"
              /\ hs.res = "Version"
              /\ hs.v = hs.inp[1]
              /\ hs.out = <<>>
              /\ Len(hs.inp) = 1

C17_Witness ==
    /\ hs.entry = "socks"
    /\ hs.res = "Version"
    /\ hs.v = 6
    /\ hs.out = <<>>

FirstNul(s) == CHOOSE i \in 1..Len(s) : s[i] = 0 /\ \A j \in 1..(i - 1) : s[j] # 0
\* What follows the userid of a SOCKS4a request, without its closing NUL.
NameAfterUserid(s) == SubSeq(s, FirstNul(s) + 1, Len(s) - 1)

\* C18: in the SOCKS4a handshake a command other than CONNECT fails with
\* Command and nothing is written; a handshake that succeeds has written
\* exactly the 8 reply bytes, and its destination is the name after the userid
\* when the first three address octets are 0 and the fourth is not, and the
\* four octets with the port in every other case.
C18_Socks4a ==
    hs.proto = "socks4" /\ Len(hs.inp) >= 2 =>
        /\ hs.inp[2] # COMMAND_CONNECT =>
              hs.res = "Command" /\ hs.v = hs.inp[2] /\ hs.out = <<>>
        /\ hs.res # "Ok" => hs.out = <<>>
        /\ hs.res = "Ok" =>
              /\ hs.inp[2] = COMMAND_CONNECT
              /\ hs.out = Socks4Reply
              /\ hs.addr.port = U16(hs.inp[3], hs.inp[4])
              /\ IF hs.inp[5] = 0 /\ hs.inp[6] = 0 /\ hs.inp[7] = 0 /\ hs.inp[8] # 0
                 THEN /\ hs.addr.form = "DomainName"
                      /\ ~hs.eof =>
                            hs.addr.host = NameAfterUserid(SubSeq(hs.inp, 9, Len(hs.inp)))
                 ELSE /\ hs.addr.form = "Ipv4"
                      /\ hs.addr.host = SubSeq(hs.inp, 5, 8)

C18_Witness ==
    /\ hs.proto = "socks4"
    /\ hs.res = "Ok"
    /\ ~hs.eof
    /\ hs.addr.form = "DomainName"
    /\ Len(hs.addr.host) = MaxField
    /\ hs.out = Socks4Reply

WellFormed(r) ==
    /\ r # <<>>
    /\ \/ r[1] = ATYP_IPV4 /\ Len(r) = 7
       \/ r[1] = ATYP_IPV6 /\ Len(r) = 19
       \/ /\ r[1] = ATYP_DOMAIN_NAME
          /\ Len(r) >= 2
          /\ Len(r) = 4 + r[2]
          /\ IsUtf8(SubSeq(r, 3, 2 + r[2]))

\* C19 (as claimed): construct on the bytes get_raw_parts produced returns
\* the address they were produced from, and get_raw_parts of the address
\* construct returned for a well-formed record is that record.
C19_CodecRoundTrip ==
    /\ codec.op = "serialize" =>
          codec.back.res = "Ok" /\ codec.back.addr = codec.addr
    /\ codec.op = "parse" /\ WellFormed(codec.rec) =>
          codec.back.res = "Ok" /\ codec.raw = codec.rec

RecordLen(r) ==
    IF r[1] = ATYP_IPV4 THEN 7
    ELSE IF r[1] = ATYP_IPV6 THEN 19
    ELSE IF r[1] = ATYP_DOMAIN_NAME THEN (IF Len(r) >= 2 THEN 4 + r[2] ELSE 2)
    ELSE 1

\* C20 (as claimed): construct, in either copy, takes exactly the bytes of the
\* record and none after it; an unknown ATYP fails with only that byte taken,
\* and a domain that is not UTF-8 fails with DomainName.
C20_ExactRead ==
    hs.entry \in {"construct5", "construct"} /\ hs.inp # <<>> =>
        /\ Len(hs.inp) <= RecordLen(hs.inp)
        /\ hs.res = "Ok" => Len(hs.inp) = RecordLen(hs.inp)
        /\ hs.inp[1] \notin {ATYP_IPV4, ATYP_DOMAIN_NAME, ATYP_IPV6} =>
              hs.pc = "failed" /\ hs.res = "InvalidAddressType" /\ Len(hs.inp) = 1
        /\ /\ hs.inp[1] = ATYP_DOMAIN_NAME
           /\ Len(hs.inp) >= 2
           /\ Len(hs.inp) = RecordLen(hs.inp)
           /\ ~IsUtf8(SubSeq(hs.inp, 3, 2 + hs.inp[2]))
           => hs.res = "DomainName"

SamePrefix(x, c) ==
    /\ x.fam = c.addr.fam
    /\ Take(x.bits, c.mask) = Take(c.addr.bits, c.mask)

\* C23 (as claimed): every address whose first mask bits equal those of an
\* inserted network, mask 0 included, is contained in the set, whatever else
\* was inserted.
C23_PrefixLaw ==
    \A c \in ips.log : \A x \in Addrs : SamePrefix(x, c) => IpSetContains(ips.set, x)

\* C24: the set contains an address only if a network of the address's family
\* inserted since the last clear has the same first mask bits; an empty or
\* cleared set contains nothing, and networks of one family leave the other
\* family's membership alone.
C24_OnlyInserted ==
    \A x \in Addrs :
        IpSetContains(ips.set, x) => \E c \in ips.log : SamePrefix(x, c)

C24_Witness ==
    /\ ips.cleared
    /\ \E c \in ips.log : c.addr.fam = "v4" /\ c.mask = 1
    /\ \E x \in AddrsOf("v4") : IpSetContains(ips.set, x)
    /\ \E x \in AddrsOf("v4") : ~IpSetContains(ips.set, x)
    /\ \A x \in AddrsOf("v6") : ~IpSetContains(ips.set, x)

\* The host argument of the last query takes part in the decision.
QHostCounts == aclq.host # NoHost /\ aclq.host # IpText(aclq.ip)

\* C21: is_bypass answers by the first applicable of: host counted and
\* matching a bypass rule (true), host counted and matching a proxy rule
\* (false), ip in the bypass list (true), ip in the proxy list (false), and
\* otherwise mode = BlackList; the answer is a function of the ACL and the
\* arguments whatever was asked before.
C21_BypassOrder ==
    (aclq.op = "bypass" /\ acl.some) =>
        (aclq.result <=>
            \/ QHostCounts /\ RuleSetContains(acl.acl.bypass_rules, aclq.host)
            \/ /\ ~(QHostCounts /\ RuleSetContains(acl.acl.proxy_rules, aclq.host))
               /\ \/ IpSetContains(acl.acl.bypass_list, aclq.ip)
                  \/ /\ ~IpSetContains(acl.acl.proxy_list, aclq.ip)
                     /\ acl.acl.mode = "BlackList")

C21_Witness ==
    /\ aclq.op = "bypass" /\ acl.some /\ aclq.n = 2
    /\ QHostCounts /\ RuleSetContains(acl.acl.proxy_rules, aclq.host)
    /\ IpSetContains(acl.acl.bypass_list, aclq.ip)
    /\ ~aclq.result

\* C22: is_block_outbound is true when the ip is in the outbound-block list,
\* or its text form matches an outbound-block rule, or the host counts and
\* matches one; otherwise it is mode = BlackList; a context with no ACL
\* answers false to both questions.
C22_BlockOutbound ==
    /\ (aclq.op = "block" /\ acl.some) =>
          (aclq.result <=>
              \/ IpSetContains(acl.acl.outbound_block_list, aclq.ip)
              \/ RuleSetContains(acl.acl.outbound_block_rules, IpText(aclq.ip))
              \/ QHostCounts /\ RuleSetContains(acl.acl.outbound_block_rules, aclq.host)
              \/ acl.acl.mode = "BlackList")
    /\ (aclq.op # "none" /\ ~acl.some) => ~aclq.result

C22_Witness ==
    /\ aclq.op = "block" /\ acl.some /\ aclq.result
    /\ ~IpSetContains(acl.acl.outbound_block_list, aclq.ip)
    /\ RuleSetContains(acl.acl.outbound_block_rules, IpText(aclq.ip))
    /\ ~QHostCounts
    /\ acl.acl.mode = "WhiteList"

\* C25 (as claimed): a file whose lines carry trailing # comments is read
\* exactly like the same file with the comments taken off: the same networks
\* and rules in the same sections, the same mode, the same current section.
C25_CommentsIgnored == acl.p = acl.q

\* The handshake gave an address and the relay has chosen where to dial.
LocalRouted == loc.pc \in {"dial", "write_addr", "transfer", "closed"} /\ loc.target # NoAddr

\* C26: after a successful handshake the local dials the destination itself
\* exactly when the destination resolved and the context answers bypass for
\* the resolved ip and the host text of the destination; otherwise, also
\* when nothing resolved and when no ACL is set, it dials the remote endpoint
\* and wraps that connection in the encrypted stream; it dials once, and a
\* connection that got an address never ends without a dial.
C26_LocalRouting ==
    /\ loc.direct + loc.remote <= 1
    /\ loc.direct = 1 => LocalRouted /\ loc.resolved /\ CtxIsBypass(acl, loc.ip, LocalHost(loc.target))
    /\ loc.remote = 1 => LocalRouted /\ ~(loc.resolved /\ CtxIsBypass(acl, loc.ip, LocalHost(loc.target)))
    /\ (LocalRouted /\ loc.pc # "dial") => loc.direct + loc.remote = 1
    /\ loc.enc => loc.remote = 1
    /\ (loc.remote = 1 /\ loc.pc \in {"write_addr", "transfer"}) => loc.enc
    /\ loc.out # <<>> => loc.direct = 1

C26_Witness ==
    /\ loc.pc = "write_addr" /\ loc.target.form = "DomainName"
    /\ ~loc.resolved /\ acl.some /\ loc.remote = 1 /\ loc.enc

\* C29: on the proxy path the plaintext put into the encrypted stream starts
\* with the serialized target address and nothing else comes before it: the
\* stream is empty until the address is in it whole, client bytes follow
\* only then, and construct on that plaintext returns the address of the
\* handshake, having read exactly the address.
C29_AddressFirst ==
    (loc.arm = "proxy") =>
        /\ loc.pc \in {"dial", "write_addr"} => loc.tun = <<>>
        /\ loc.tun # <<>> =>
              /\ IsPrefix(get_raw_parts(loc.target), loc.tun)
              /\ Len(loc.tun) = Len(get_raw_parts(loc.target)) + loc.copied
              /\ construct(loc.tun).res = "Ok"
              /\ construct(loc.tun).addr = loc.target
              /\ construct(loc.tun).used = Len(get_raw_parts(loc.target))
        /\ loc.copied > 0 => loc.tun # <<>>

C29_Witness ==
    /\ loc.arm = "proxy" /\ loc.copied = MaxCopied
    /\ loc.target.form = "DomainName" /\ Len(loc.target.host) > 1
    /\ Len(loc.tun) > MaxCopied

\* C30: in the bidirectional copy a direction is done exactly when the write
\* half of its writer was shut down, which happens once; a done direction
\* copies nothing more; the end of one direction leaves the other running,
\* and the copy ends only with both directions done (success, returning both
\* byte counts), with an I/O error, or with TimedOut after a whole timeout
\* in which no copy step completed.
C30_HalfClose ==
    /\ [](/\ \A d \in Dirs : cp.shut[WriterOf(d)] = (IF cp.done[d] THEN 1 ELSE 0)
          /\ cp.result = "Ok" <=> \A d \in Dirs : cp.done[d]
          /\ cp.result = "Ok" => cp.ret = cp.n
          /\ cp.result = "TimedOut" => cp.slept = TransferSecs)
    /\ [][/\ \A d \in Dirs : cp.done[d] => cp'.done[d] /\ cp'.n[d] = cp.n[d]
          /\ \A d \in Dirs :
                (~cp.done[d] /\ cp'.done[d] /\ ~cp.done[IF d = "ab" THEN "ba" ELSE "ab"]) =>
                    cp'.result = "running" /\ ~cp'.done[IF d = "ab" THEN "ba" ELSE "ab"]
          /\ cp.result # "running" => cp' = cp]_vars

C30_Witness ==
    /\ cp.result = "Ok"
    /\ cp.n.ab = 0 /\ cp.n.ba > 1
    /\ cp.shut.a = 1 /\ cp.shut.b = 1

\* C28 (as claimed): a remote that went to read_to_end after a protocol
\* error on the address closes the connection only once the client has
\* ended its stream, and it never dials.
C28_DrainToEof ==
    [][\A c \in Conns :
          /\ (relay[c].pc = "drain" /\ relay'[c].pc = "closed") => eof[c]
          /\ relay[c].pc = "drain" => relay'[c].pc \in {"drain", "closed", "panicked"}
          /\ relay[c].pc = "drain" => ~relay'[c].dialed]_vars

\* C27: the remote dials only after the peer was admitted by the ACL, the
\* address was read, the host resolved and block_outbound answered false,
\* in this order; a rejected peer is dropped with nothing read from it; at
\* most one outbound connection is opened per accepted connection.
C27_RemoteGates ==
    /\ rem.dials <= 1
    /\ rem.dials = 1 =>
          /\ rem.log = <<"admitted", "address", "resolved", "allowed", "dial">>
          /\ ~CtxIsBypass(acl, rem.peer, NoHost)
          /\ rem.target # NoAddr /\ rem.ip # NoIp
          /\ ~CtxIsBlockOutbound(acl, rem.ip, RemoteHost(rem.target))
    /\ rem.pc = "rejected" => rem.reads = 0 /\ rem.dials = 0 /\ rem.log = <<>>
    /\ (rem.pc # "listening" /\ CtxIsBypass(acl, rem.peer, NoHost)) => rem.pc = "rejected"
    /\ rem.pc \in {"transfer", "connect"} => ~CtxIsBlockOutbound(acl, rem.ip, RemoteHost(rem.target))

C27_Witness ==
    /\ rem.pc = "transfer" /\ rem.dials = 1 /\ acl.some
    /\ rem.target.form = "DomainName"
    /\ acl.acl.outbound_block_list # IpSetNew
    /\ rem.reads > 1

\* the first length-record connection c decrypted, if any, authenticated
FirstLengthOk(c) == RecordOps(decLog[c]) # <<>> /\ RecordOps(decLog[c])[1].ok

\* C31 (as claimed): per connection the replay set is consulted once, at the
\* first length-record that authenticates and before any payload-record is
\* decrypted, never again afterwards, and a connection whose first
\* length-record failed authentication has not had its salt presented to the
\* replay set.
C31_ConsultedOnce ==
    \A c \in Conns :
        /\ (\E i \in 1..Len(decLog[c]) : decLog[c][i].kind = "payload")
              => rlast[c].replay # "none"
        /\ rlast[c].replay # "none" => ~rd[c].incoming_salt.some
        /\ rlast[c].replay # "none" => FirstLengthOk(c)

\* C32: a reader's decrypt cipher is derived from a salt of salt_size bytes
\* and is set whenever its read state is past ReadSalt; the writer's encrypt
\* cipher is set whenever its write state is past WriteSalt; and no AEAD
\* operation was ever attempted by a stream whose cipher is unset.
C32_CipherBeforeUse ==
    /\ wr.write_state # "WriteSalt" => wr.enc_cipher # NoCipher
    /\ wr.enc_cipher = NoCipher => RecordOps(emits) = <<>>
    /\ wr.enc_cipher # NoCipher => Len(wr.enc_cipher[2]) = SaltSize
    /\ \A c \in Conns :
          /\ rd[c].read_state.s # "ReadSalt" => rd[c].dec_cipher # NoCipher
          /\ rd[c].dec_cipher = NoCipher =>
                /\ decLog[c] = <<>>
                /\ Len(rd[c].read_buf.data) < SaltSize
          /\ rd[c].dec_cipher # NoCipher => Len(rd[c].dec_cipher[2]) = SaltSize
          /\ rlast[c].res # "Panic"

\* the writer has sealed records and the reader, having received the salt,
\* has opened a length-record and a payload-record
C32_Witness ==
    /\ wr.enc_cipher # NoCipher
    /\ Len(RecordOps(emits)) >= 2
    /\ rd[1].dec_cipher # NoCipher
    /\ Len(RecordOps(decLog[1])) >= 2
    /\ rd[1].read_state.s = "ReadLength"

\* the size on the wire of the unit a reader is waiting for, and how much of
\* it the reader holds
UnitSize(s) ==
    CASE s.read_state.s = "ReadSalt" -> SaltSize
      [] s.read_state.s = "ReadLength" -> 2 + TagSize
      [] s.read_state.s = "ReadPayload" -> s.read_state.n + TagSize
      [] OTHER -> 0
Held(s) == IF IsFull(s.read_buf) THEN <<>> ELSE s.read_buf.data

\* C33: a read during which the open transport delivers less than the rest
\* of the salt, length-record or payload-record being awaited returns Pending,
\* leaves the read state and the decrypt nonce as they were, performs no AEAD
\* operation and delivers nothing, and holds exactly the bytes held before
\* followed by the bytes it took from the front of the transport.
C33_ShortReadParks ==
    [][LET used == Len(wire) - Len(wire')
       IN (/\ rd'[1] # rd[1] \/ rlast'[1] # rlast[1]
           /\ used >= 0
           /\ rd[1].read_state.s # "ReadPayloadOut"
           /\ Len(Held(rd[1])) + used < UnitSize(rd[1])
           /\ ~closed \/ wire' # <<>>)
          => /\ rlast'[1].res = "Pending"
             /\ rd'[1].read_state = rd[1].read_state
             /\ rd'[1].dec_nonce = rd[1].dec_nonce
             /\ rd'[1].dec_cipher = rd[1].dec_cipher
             /\ decLog'[1] = decLog[1]
             /\ delivered'[1] = delivered[1]
             /\ Held(rd'[1]) = Held(rd[1]) \o Take(wire, used)
             /\ wire' = Drop(wire, used)]_vars

\* part of a payload-record is held by a reader that answered Pending
C33_Witness ==
    /\ rlast[1].res = "Pending"
    /\ rd[1].read_state.s = "ReadPayload"
    /\ Held(rd[1]) # <<>>
    /\ Len(Held(rd[1])) < UnitSize(rd[1])
    /\ delivered[1] # <<>>

\* C34: a new nonce of len bytes is all zero, and increment leaves the length
\* and adds one to the nonce read as a little-endian unsigned integer, modulo
\* 2^(8 len), so that the nonce of all 0xFF becomes all zero.
C34_LittleEndianIncrement ==
    /\ counter.op = "new" => \A i \in 1..Len(counter.value) : counter.value[i] = 0
    /\ counter.op = "increment" =>
          /\ Len(counter.value) = Len(counter.prev)
          /\ NonceValue(counter.value)
                = (NonceValue(counter.prev) + 1) % Pow2(8 * Len(counter.prev))
          /\ (\A i \in 1..Len(counter.prev) : counter.prev[i] = ByteMod - 1)
                => counter.value = NonceNew(Len(counter.prev))

\* the carry has run through every byte of a nonce of the full length
C34_Witness ==
    /\ counter.op = "increment"
    /\ Len(counter.prev) = NonceLen
    /\ \A i \in 1..NonceLen : counter.prev[i] = ByteMod - 1
    /\ counter.value = NonceNew(NonceLen)

\* C35 (as claimed): the count a completed write call returns is the number
\* of plaintext bytes sealed into the payload-record it sent, and these are
\* the first bytes of the buffer it was last polled with, also when an
\* earlier poll of the call was made with a buffer of another length.
C35_CountIsWhatWasSealed ==
    (wlast.valid /\ wlast.mode = "write") =>
        LET r == RecordOps(wlast.ops)
        IN \A i \in 1..Len(r) :
              r[i].kind = "payload" =>
                  /\ wlast.ret = Len(r[i].pt)
                  /\ r[i].pt = Take(wlast.buf, wlast.ret)

\* C36 (as claimed): a read of the relay's read_exact, whose buffer holds
\* what earlier polls put there, puts at most as many bytes as are unfilled
\* and ends without a fault; one that finds the reader in ReadPayloadOut
\* puts the front of the kept record, keeps the rest in order and takes
\* nothing from the transport.
C36_DrainIntoUnfilled ==
    [][(/\ relay[1].pc = "construct"
        /\ rd'[1] # rd[1] \/ rlast'[1] # rlast[1])
       => LET room == relay[1].want - Len(relay[1].got)
              n == Min(room, Len(rd[1].in_payload))
          IN /\ rlast'[1].res # "Panic"
             /\ Len(delivered'[1]) - Len(delivered[1]) <= room
             /\ rd[1].read_state.s = "ReadPayloadOut" =>
                   /\ delivered'[1] = delivered[1] \o Take(rd[1].in_payload, n)
                   /\ net'[1] = net[1]
                   /\ n < Len(rd[1].in_payload) =>
                         /\ rd'[1].in_payload = Drop(rd[1].in_payload, n)
                         /\ rd'[1].read_state.s = "ReadPayloadOut"]_vars

\* C40 (as claimed): a read into a caller buffer with room that completes
\* with zero bytes and no error found the transport at end-of-stream: the
\* writer's end is closed and every byte sent has been taken.
C40_ZeroMeansEof ==
    (rlast[1].res = "Ok" /\ rlast[1].n = 0) => (closed /\ wire = <<>>)

\* C37 (as claimed): no byte a direction has read is dropped unwritten when
\* a step of the other direction completes, a direction that is not in the
\* middle of a copy step has written every byte it read, and so has every
\* direction of a copy that ended successfully.
C37_ReadMeansWritten ==
    \A d \in Dirs :
        /\ cp.lost[d] = 0
        /\ (cp.size[d] = 0 \/ cp.result = "Ok") => cp.put[d] = cp.got[d]

\* C38 (as claimed): the remote never gets as far as dialing a destination
\* given as a domain name when an outbound-block rule matches that name.
C38_BlockedNameNotDialed ==
    (/\ rem.pc \in {"connect", "transfer"} \/ rem.dials > 0
     /\ rem.target # NoAddr
     /\ rem.target.form = "DomainName")
    => ~RuleSetContains(acl.acl.outbound_block_rules,
                        HostText(Labels(rem.target.host), 0))

\* C39 (as claimed): a SOCKS4 or SOCKS4a handshake that has succeeded has
\* taken from the client's stream exactly the bytes of the request; what
\* the client sent behind the request is still in the stream.
C39_ExactlyTheRequest ==
    (hs.proto = "socks4" /\ hs.pc = "done" /\ hs.reqlen > 0) =>
        /\ hs.taken = Take(hs.plan, hs.reqlen)
        /\ hs.dropped = <<>>
        /\ hs.sock = SubSeq(hs.plan, hs.reqlen + 1, hs.sent)

====
